---------------------------- MODULE Spec2Model ----------------------------
(***************************************************************************)
(* Authentication core of rustpress: the two AuthService implementations   *)
(* (plugin/auth-plugin and app/advanced-app) over one relational store.    *)
(* Every database statement of a handler is one atomic step of the calling *)
(* process; the local checks that follow a read belong to the read's step. *)
(***************************************************************************)
EXTENDS Integers, Sequences, FiniteSets, TLC

(***************************************************************************)
(* Bounds of the model.  Durations are configuration values (config.rs     *)
(* reads them from the environment); they are scaled to a few clock ticks. *)
(***************************************************************************)
MaxTime == 4
MaxTokens == 3
GuardTime == 2
GuardTokens == 2
LockoutTime == 2
LockoutTokens == 1
ResetTime == 3
SingleUseTime == 2
MaxResetTokens == 2
MaxVerificationTokens == 2
lockout_duration == 1
refresh_token_expiration == 2
access_token_expiration == 1
password_reset_expiration == 2
email_verification_expiration == 2
jwt_leeway == 1

(* Program constants (defaults of AuthConfig). *)
max_login_attempts == 5
min_password_length == 8

Procs == {1, 2}
Users == {"u1", "u2"}
Impls == {"plugin", "app"}
Statuses == {"pending", "active", "suspended", "deleted"}

(* Option<T>: None is the empty sequence, Some(x) the one-element sequence. *)
None == <<>>
Some(x) == <<x>>
IsSome(o) == o # <<>>
Unwrap(o) == o[1]

(***************************************************************************)
(* Passwords, by what the strength check and the digest look at.           *)
(***************************************************************************)
PwSecret == [id |-> "Secret123", len |-> 9, upper |-> TRUE, lower |-> TRUE, digit |-> TRUE]
PwOther == [id |-> "Other4567", len |-> 9, upper |-> TRUE, lower |-> TRUE, digit |-> TRUE]
PwLower == [id |-> "lowercase", len |-> 9, upper |-> FALSE, lower |-> TRUE, digit |-> FALSE]
PwShort == [id |-> "Ab1", len |-> 3, upper |-> TRUE, lower |-> TRUE, digit |-> TRUE]
Passwords == {PwSecret, PwOther, PwLower, PwShort}
Salts == {"s1", "s2"}

EmailOf(u) == IF u = "u1" THEN "a@x.test" ELSE "b@x.test"
Emails == {EmailOf(u) : u \in Users} \cup {"unknown@x.test"}
Ips == {"10.0.0.1"}

VARIABLES
    impl,                       \* which AuthService copy runs: "plugin" or "app"
    require_email_verification, \* AuthConfig.require_email_verification
    now,                        \* Utc::now() / NOW()
    users,                      \* table users, keyed by id
    refresh_tokens,             \* table refresh_tokens, a sequence; id = position
    password_reset_tokens,      \* table password_reset_tokens
    email_verification_tokens,  \* table email_verification_tokens
    pc,                         \* per caller: position in the handler it runs
    loc,                        \* per caller: the handler's local variables
    hist,                       \* history: what earlier calls returned
    plugin,                     \* the AuthPlugin object: state, config, auth_service, db
    pre                         \* history: the store when the running call began

vars == <<impl, require_email_verification, now, users, refresh_tokens,
          password_reset_tokens, email_verification_tokens, pc, loc, hist, plugin, pre>>

(* What no operation of AuthService writes: its configuration, and the plugin object. *)
config == <<impl, require_email_verification, plugin>>

(* AuthPlugin::new(): Inactive, with no config, service or db. *)
AuthPlugin_new ==
    [state |-> "Inactive", config |-> <<>>, auth_service |-> <<>>, db |-> <<>>]
store == <<users, refresh_tokens, password_reset_tokens, email_verification_tokens>>

(***************************************************************************)
(* CredentialHasher                                                        *)
(***************************************************************************)
(* Mutant: the digest does not depend on the password. *)
hash_password_Fixed(password, salt) == [alg |-> "argon2id", salt |-> salt, out |-> "Secret123"]

hash_password(password, salt) == [alg |-> "argon2id", salt |-> salt, out |-> password.id]

(* PasswordHash::new(hash): a digest that is not a PHC string does not parse. *)
PasswordHash_new(hash) == IF hash.alg = "malformed" THEN None ELSE Some(hash)

(* Argon2::verify_password(..).is_ok() on a parsed digest. *)
verify_password(password, hash) == hash.alg = "argon2id" /\ hash.out = password.id

Plugin_validate_password(password) ==
    /\ ~(password.len < min_password_length)
    /\ ~(~password.upper \/ ~password.lower \/ ~password.digit)

App_validate_password(password) == ~(password.len < min_password_length)

validate_password(i, password) ==
    IF i = "plugin" THEN Plugin_validate_password(password)
                    ELSE App_validate_password(password)

(***************************************************************************)
(* models.rs                                                               *)
(***************************************************************************)
(* Mutant: a lockout-expiry is never in the future. *)
is_locked_Never(user, t) == FALSE

is_locked(user, t) ==
    IF IsSome(user.locked_until) THEN Unwrap(user.locked_until) > t ELSE FALSE

is_email_verified(user) == IsSome(user.email_verified_at)

(* Mutant: the lock is not asked. *)
can_login_StatusOnly(user, t) == user.status = "active"

can_login(user, t) == user.status = "active" /\ ~is_locked(user, t)

is_expired(tok, t) == tok.expires_at < t

is_revoked(tok) == IsSome(tok.revoked_at)

is_valid(tok, t) == ~is_expired(tok, t) /\ ~is_revoked(tok)

(* The app's copy of models.rs, as the specification describes it (3, 4.3). *)
App_is_locked(user, t) == IsSome(user.locked_until) /\ Unwrap(user.locked_until) > t

App_can_login(user, t) == user.status = "active" /\ ~App_is_locked(user, t)

App_is_expired(tok, t) == ~(tok.expires_at > t)

App_is_revoked(tok) == IsSome(tok.revoked_at)

(* The app's conversion of a jsonwebtoken error into an AuthError (6: invalid_token). *)
App_jwt_error == "InvalidToken"

(***************************************************************************)
(* TokenIssuer.  A refresh token on the wire is the signed claims (sub,    *)
(* tid, exp) and, in the plugin, a random string after the last dot.       *)
(***************************************************************************)
Plugin_hash_token(token_string) == [alg |-> "DefaultHasher", of |-> <<token_string>>]

App_hash_token(token) == [alg |-> "Sha256", of |-> <<token>>]

hash_token(i, token) ==
    IF i = "plugin" THEN Plugin_hash_token(token) ELSE App_hash_token(token)

(* jsonwebtoken::decode under Validation::default(): signature, then exp with leeway. *)
decode(token, t, check_sig) ==
    IF check_sig /\ ~token.sig THEN None
    ELSE IF token.exp + jwt_leeway < t THEN None
    ELSE Some([sub |-> token.sub, tid |-> token.tid, exp |-> token.exp])

(* The wire token handed out for the refresh record rec. *)
WireToken(i, rec) ==
    [sub |-> rec.user_id, tid |-> rec.id, exp |-> rec.expires_at, sig |-> TRUE,
     secret |-> IF i = "plugin" THEN rec.id ELSE 0]

NewRefreshRecord(i, id, user_id, t) ==
    LET exp == t + refresh_token_expiration
        tok == [sub |-> user_id, tid |-> id, exp |-> exp, sig |-> TRUE,
                secret |-> IF i = "plugin" THEN id ELSE 0]
    IN  [id |-> id, user_id |-> user_id,
         token_hash |-> IF i = "plugin" THEN Plugin_hash_token(tok.secret)
                                        ELSE App_hash_token(tok),
         expires_at |-> exp, revoked_at |-> None, replaced_by |-> None]

AccessToken(user_id, t) == [sub |-> user_id, exp |-> t + access_token_expiration]

(* Mutant: the WHERE clause forgets the owner. *)
revoke_all_tokens_AnyOwner(tokens, user_id, t) ==
    [k \in DOMAIN tokens |->
        IF tokens[k].revoked_at = None
        THEN [tokens[k] EXCEPT !.revoked_at = Some(t)]
        ELSE tokens[k]]

(* UPDATE refresh_tokens SET revoked_at = NOW() WHERE user_id = $1 AND revoked_at IS NULL *)
revoke_all_tokens(tokens, user_id, t) ==
    [k \in DOMAIN tokens |->
        IF tokens[k].user_id = user_id /\ tokens[k].revoked_at = None
        THEN [tokens[k] EXCEPT !.revoked_at = Some(t)]
        ELSE tokens[k]]

(***************************************************************************)
(* Callers                                                                 *)
(***************************************************************************)
NoLocals ==
    [op |-> "none", arg |-> None, user |-> None, stored |-> None,
     result |-> "none", out |-> None, at |-> 0, ret |-> 0]

Idle(p) == pc[p] \in {"idle", "done"}

(* Mutant: the SELECT has no WHERE clause. *)
FindUserByEmail_AnyRow(email) == {u \in DOMAIN users : TRUE}

(* SELECT * FROM users WHERE email = $1 *)
FindUserByEmail(email) == {u \in DOMAIN users : users[u].email = email}

to_lowercase(email) == IF email = "A@X.test" THEN "a@x.test" ELSE email

Begin(op, arg) == [NoLocals EXCEPT !.op = op, !.arg = Some(arg), !.at = now]

(***************************************************************************)
(* History kept for the properties: per account the run of consecutive     *)
(* wrong-password logins that began at counter 0 and when it last grew;    *)
(* the refresh tokens a refresh_tokens call was answered Ok for; the reset *)
(* tokens a reset_password call was answered Ok for; per account how many  *)
(* login calls had their password verified and found wrong since the last  *)
(* successful login (counted up to CheckedCap).                            *)
(***************************************************************************)
CheckedCap == max_login_attempts + 1

NoHistory ==
    [streak |-> [u \in Users |-> 0], lastWrongAt |-> [u \in Users |-> 0],
     rotated |-> {}, resetDone |-> {}, checked |-> [u \in Users |-> 0]]

(* A login that found its account was answered: InvalidCredentials means the
   password was verified against the digest and did not match. *)
ObserveChecked(h, l, result) ==
    IF l.user = None \/ Unwrap(l.user).id \notin Users THEN h
    ELSE LET u == Unwrap(l.user).id
         IN  IF result = "InvalidCredentials"
             THEN [h EXCEPT !.checked[u] = IF @ < CheckedCap THEN @ + 1 ELSE @]
             ELSE IF result = "Ok" THEN [h EXCEPT !.checked[u] = 0]
             ELSE h

ObserveLogin(h, l) ==
    LET a == Unwrap(l.arg)
    IN  IF l.user = None THEN h
        ELSE LET u == Unwrap(l.user).id
                 wrong == ~verify_password(a.password, Unwrap(l.user).password_hash)
                 counts == /\ wrong
                           /\ Unwrap(l.user).status = "active"
                           /\ \/ h.streak[u] > 0
                              \/ Unwrap(l.user).failed_login_attempts = 0
             IN  IF counts
                 THEN [h EXCEPT !.streak[u] = IF @ < max_login_attempts THEN @ + 1 ELSE @,
                                !.lastWrongAt[u] = IF h.streak[u] < max_login_attempts
                                                   THEN now ELSE @]
                 ELSE [h EXCEPT !.streak[u] = 0]

Observe(h, l, result) ==
    IF l.op = "login" THEN ObserveChecked(ObserveLogin(h, l), l, result)
    ELSE IF l.op = "refresh_tokens" /\ result = "Ok"
         THEN [h EXCEPT !.rotated = @ \cup {Unwrap(l.arg).token.tid}]
    ELSE IF l.op = "reset_password" /\ result = "Ok"
         THEN [h EXCEPT !.resetDone = @ \cup {Unwrap(l.arg).token}]
    ELSE h

Finish(p, l, result) ==
    /\ pc' = [pc EXCEPT ![p] = "done"]
    /\ loc' = [loc EXCEPT ![p] = [l EXCEPT !.result = result, !.ret = now]]
    /\ hist' = Observe(hist, l, result)

Goto(p, l, label) ==
    /\ pc' = [pc EXCEPT ![p] = label]
    /\ loc' = [loc EXCEPT ![p] = l]
    /\ UNCHANGED hist

(***************************************************************************)
(* login                                                                   *)
(***************************************************************************)
(* plugin: SELECT the user, then the checks up to the password check. *)
PluginLogin_Find(p, email, password, ip) ==
    /\ impl = "plugin" /\ Idle(p)
    /\ LET l == Begin("login", [email |-> email, password |-> password, ip |-> ip])
           found == FindUserByEmail(email)
       IN  IF found = {} THEN Finish(p, l, "InvalidCredentials")
           ELSE LET user == users[CHOOSE u \in found : TRUE]
                    lu == [l EXCEPT !.user = Some(user)]
                IN  IF is_locked(user, now) THEN Finish(p, lu, "AccountLocked")
                    ELSE IF user.status # "active" THEN Finish(p, lu, "AccountNotActive")
                    ELSE IF PasswordHash_new(user.password_hash) = None
                         THEN Finish(p, lu, "Internal")
                    ELSE IF ~verify_password(password, user.password_hash)
                         THEN Goto(p, lu, "login_increment")
                    ELSE IF require_email_verification /\ ~is_email_verified(user)
                         THEN Finish(p, lu, "EmailNotVerified")
                    ELSE Goto(p, lu, "login_record")
    /\ UNCHANGED <<config, now, store>>

(* Mutant: the lock is set one failure late (> for >=). *)
Plugin_increment_failed_attempts_Late(row, t) ==
    [row EXCEPT !.failed_login_attempts = row.failed_login_attempts + 1,
                !.locked_until = IF row.failed_login_attempts + 1 > max_login_attempts
                                 THEN Some(t + lockout_duration)
                                 ELSE row.locked_until]

(* plugin: one UPDATE computing the new counter and the lock from the stored row. *)
Plugin_increment_failed_attempts(row, t) ==
    [row EXCEPT !.failed_login_attempts = row.failed_login_attempts + 1,
                !.locked_until = IF row.failed_login_attempts + 1 >= max_login_attempts
                                 THEN Some(t + lockout_duration)
                                 ELSE row.locked_until]

(* Mutant: the lock is set only when the counter arrives at the threshold. *)
App_increment_failed_attempts_AtThreshold(row, user, t) ==
    LET new_attempts == user.failed_login_attempts + 1
        locked_until == IF new_attempts = max_login_attempts
                        THEN Some(t + lockout_duration)
                        ELSE None
    IN  [row EXCEPT !.failed_login_attempts = new_attempts,
                    !.locked_until = locked_until]

(* app: the new counter and the lock are computed from the user read earlier. *)
App_increment_failed_attempts(row, user, t) ==
    LET new_attempts == user.failed_login_attempts + 1
        locked_until == IF new_attempts >= max_login_attempts
                        THEN Some(t + lockout_duration)
                        ELSE None
    IN  [row EXCEPT !.failed_login_attempts = new_attempts,
                    !.locked_until = locked_until]

record_successful_login(row, ip, t) ==
    [row EXCEPT !.failed_login_attempts = 0,
                !.locked_until = None,
                !.last_login_at = Some(t),
                !.last_login_ip = Some(ip)]

PluginLogin_Increment(p) ==
    /\ impl = "plugin" /\ pc[p] = "login_increment"
    /\ LET id == Unwrap(loc[p].user).id
       IN  users' = [users EXCEPT ![id] = Plugin_increment_failed_attempts(@, now)]
    /\ Finish(p, loc[p], "InvalidCredentials")
    /\ UNCHANGED <<config, now, refresh_tokens, password_reset_tokens,
                   email_verification_tokens>>

AppLogin_Find(p, email, password, ip) ==
    /\ impl = "app" /\ Idle(p)
    /\ LET l == Begin("login", [email |-> email, password |-> password, ip |-> ip])
           found == FindUserByEmail(to_lowercase(email))
       IN  IF found = {} THEN Finish(p, l, "InvalidCredentials")
           ELSE LET user == users[CHOOSE u \in found : TRUE]
                    lu == [l EXCEPT !.user = Some(user)]
                IN  IF App_is_locked(user, now) THEN Finish(p, lu, "AccountLocked")
                    ELSE IF user.status # "active"
                         THEN IF user.status = "pending" /\ require_email_verification
                              THEN Finish(p, lu, "EmailNotVerified")
                              ELSE Finish(p, lu, "AccountNotActive")
                    ELSE IF PasswordHash_new(user.password_hash) = None
                         THEN Finish(p, lu, "Internal")
                    ELSE IF ~verify_password(password, user.password_hash)
                         THEN Goto(p, lu, "login_increment")
                    ELSE Goto(p, lu, "login_record")
    /\ UNCHANGED <<config, now, store>>

AppLogin_Increment(p) ==
    /\ impl = "app" /\ pc[p] = "login_increment"
    /\ LET user == Unwrap(loc[p].user)
       IN  users' = [users EXCEPT ![user.id] = App_increment_failed_attempts(@, user, now)]
    /\ Finish(p, loc[p], "InvalidCredentials")
    /\ UNCHANGED <<config, now, refresh_tokens, password_reset_tokens,
                   email_verification_tokens>>

(* Both copies: the UPDATE of record_successful_login. *)
Login_Record(p) ==
    /\ pc[p] = "login_record"
    /\ LET a == Unwrap(loc[p].arg)
           id == Unwrap(loc[p].user).id
       IN  users' = [users EXCEPT ![id] = record_successful_login(@, a.ip, now)]
    /\ Goto(p, loc[p], "login_tokens")
    /\ UNCHANGED <<config, now, refresh_tokens, password_reset_tokens,
                   email_verification_tokens>>

(* Both copies: mint the access token, INSERT the refresh record, return the pair. *)
Login_Tokens(p) ==
    /\ pc[p] = "login_tokens"
    /\ LET user == Unwrap(loc[p].user)
           rec == NewRefreshRecord(impl, Len(refresh_tokens) + 1, user.id, now)
       IN  /\ refresh_tokens' = Append(refresh_tokens, rec)
           /\ Finish(p, [loc[p] EXCEPT !.out = Some([access_token |-> AccessToken(user.id, now),
                                                     refresh_token |-> WireToken(impl, rec)])],
                     "Ok")
    /\ UNCHANGED <<config, now, users, password_reset_tokens, email_verification_tokens>>

(***************************************************************************)
(* refresh_tokens                                                          *)
(***************************************************************************)
(* Mutant: the SELECT does not compare the hash. *)
Plugin_FindToken_ById(tid, token_hash) ==
    {k \in DOMAIN refresh_tokens : refresh_tokens[k].id = tid}

(* SELECT * FROM refresh_tokens WHERE id = $1 AND token_hash = $2 *)
Plugin_FindToken(tid, token_hash) ==
    {k \in DOMAIN refresh_tokens :
        refresh_tokens[k].id = tid /\ refresh_tokens[k].token_hash = token_hash}

App_FindToken(token_hash, sub) ==
    {k \in DOMAIN refresh_tokens :
        refresh_tokens[k].token_hash = token_hash /\ refresh_tokens[k].user_id = sub}

find_user_by_id(id) == IF id \in DOMAIN users THEN Some(users[id]) ELSE None

(* plugin: split and decode the token, SELECT the record by id and hash, judge it. *)
PluginRefresh_Lookup(p, token) ==
    /\ impl = "plugin" /\ Idle(p)
    /\ LET l == Begin("refresh_tokens", [token |-> token])
           claims == decode(token, now, TRUE)
       IN  IF claims = None THEN Finish(p, l, "InvalidToken")
           ELSE LET found == Plugin_FindToken(Unwrap(claims).tid,
                                              Plugin_hash_token(token.secret))
                IN  IF found = {} THEN Finish(p, l, "InvalidToken")
                    ELSE LET stored_token == refresh_tokens[CHOOSE k \in found : TRUE]
                             ls == [l EXCEPT !.stored = Some(stored_token)]
                         IN  IF ~is_valid(stored_token, now)
                             THEN IF is_revoked(stored_token)
                                  THEN Goto(p, ls, "refresh_revoke_all")
                                  ELSE Finish(p, ls, "TokenRevoked")
                             ELSE Goto(p, ls, "refresh_user")
    /\ UNCHANGED <<config, now, store>>

(* app: decode the token, SELECT the record by hash and owner, judge it. *)
AppRefresh_Lookup(p, token) ==
    /\ impl = "app" /\ Idle(p)
    /\ LET l == Begin("refresh_tokens", [token |-> token])
           claims == decode(token, now, TRUE)
       IN  IF claims = None THEN Finish(p, l, App_jwt_error)
           ELSE LET found == App_FindToken(App_hash_token(token), Unwrap(claims).sub)
                IN  IF found = {} THEN Finish(p, l, "InvalidToken")
                    ELSE LET stored_token == refresh_tokens[CHOOSE k \in found : TRUE]
                             ls == [l EXCEPT !.stored = Some(stored_token)]
                         IN  IF App_is_revoked(stored_token)
                             THEN Goto(p, ls, "refresh_revoke_all")
                             ELSE IF App_is_expired(stored_token, now)
                                  THEN Finish(p, ls, "InvalidToken")
                             ELSE Goto(p, ls, "refresh_user")
    /\ UNCHANGED <<config, now, store>>

(* The account whose records a reuse revokes: claims.sub (plugin), stored_token.user_id (app). *)
ReuseAccount(i, l) ==
    IF i = "plugin" THEN Unwrap(l.arg).token.sub ELSE Unwrap(l.stored).user_id

Refresh_RevokeAll(p) ==
    /\ pc[p] = "refresh_revoke_all"
    /\ refresh_tokens' = revoke_all_tokens(refresh_tokens, ReuseAccount(impl, loc[p]), now)
    /\ Finish(p, loc[p], "TokenRevoked")
    /\ UNCHANGED <<config, now, users, password_reset_tokens, email_verification_tokens>>

(* SELECT the user by claims.sub and ask can_login. *)
PluginRefresh_GetUser(p) ==
    /\ impl = "plugin" /\ pc[p] = "refresh_user"
    /\ LET user == find_user_by_id(Unwrap(loc[p].arg).token.sub)
       IN  IF user = None THEN Finish(p, loc[p], "UserNotFound")
           ELSE LET lu == [loc[p] EXCEPT !.user = user, !.at = now]
                IN  IF ~can_login(Unwrap(user), now)
                    THEN Finish(p, lu, "AccountNotActive")
                    ELSE Goto(p, lu, "refresh_tokens")
    /\ UNCHANGED <<config, now, store>>

AppRefresh_GetUser(p) ==
    /\ impl = "app" /\ pc[p] = "refresh_user"
    /\ LET user == find_user_by_id(Unwrap(loc[p].arg).token.sub)
       IN  IF user = None THEN Finish(p, loc[p], "UserNotFound")
           ELSE LET lu == [loc[p] EXCEPT !.user = user, !.at = now]
                IN  IF ~App_can_login(Unwrap(user), now)
                    THEN Finish(p, lu, "AccountNotActive")
                    ELSE Goto(p, lu, "refresh_revoke_old")
    /\ UNCHANGED <<config, now, store>>

(* plugin: mint the new pair first ... *)
PluginRefresh_Tokens(p) ==
    /\ impl = "plugin" /\ pc[p] = "refresh_tokens"
    /\ LET user == Unwrap(loc[p].user)
           rec == NewRefreshRecord(impl, Len(refresh_tokens) + 1, user.id, now)
       IN  /\ refresh_tokens' = Append(refresh_tokens, rec)
           /\ Goto(p, [loc[p] EXCEPT !.out = Some([access_token |-> AccessToken(user.id, now),
                                                   refresh_token |-> WireToken(impl, rec)])],
                   "refresh_revoke_old")
    /\ UNCHANGED <<config, now, users, password_reset_tokens, email_verification_tokens>>

(* Mutant: the UPDATE matches no row. *)
Plugin_revoke_by_id_NoRow(tokens, tid, t) == tokens

(* UPDATE refresh_tokens SET revoked_at = NOW() WHERE id = $1 *)
Plugin_revoke_by_id(tokens, tid, t) ==
    [k \in DOMAIN tokens |->
        IF tokens[k].id = tid THEN [tokens[k] EXCEPT !.revoked_at = Some(t)]
                              ELSE tokens[k]]

(* ... then revoke the presented record, whatever its state is by now. *)
PluginRefresh_RevokeOld(p) ==
    /\ impl = "plugin" /\ pc[p] = "refresh_revoke_old"
    /\ refresh_tokens' = Plugin_revoke_by_id(refresh_tokens, Unwrap(loc[p].arg).token.tid, now)
    /\ Finish(p, loc[p], "Ok")
    /\ UNCHANGED <<config, now, users, password_reset_tokens, email_verification_tokens>>

(* UPDATE refresh_tokens SET revoked_at = NOW(), replaced_by = $1 WHERE id = $2 *)
revoke_refresh_token(tokens, id, replaced_by, t) ==
    [k \in DOMAIN tokens |->
        IF tokens[k].id = id
        THEN [tokens[k] EXCEPT !.revoked_at = Some(t), !.replaced_by = replaced_by]
        ELSE tokens[k]]

(* app: revoke the presented record first, whatever its state is by now ... *)
AppRefresh_RevokeOld(p) ==
    /\ impl = "app" /\ pc[p] = "refresh_revoke_old"
    /\ refresh_tokens' = revoke_refresh_token(refresh_tokens, Unwrap(loc[p].stored).id, None, now)
    /\ Goto(p, loc[p], "refresh_tokens")
    /\ UNCHANGED <<config, now, users, password_reset_tokens, email_verification_tokens>>

(* ... then mint the new pair ... *)
AppRefresh_Tokens(p) ==
    /\ impl = "app" /\ pc[p] = "refresh_tokens"
    /\ LET user == Unwrap(loc[p].user)
           rec == NewRefreshRecord(impl, Len(refresh_tokens) + 1, user.id, now)
       IN  /\ refresh_tokens' = Append(refresh_tokens, rec)
           /\ Goto(p, [loc[p] EXCEPT !.out = Some([access_token |-> AccessToken(user.id, now),
                                                   refresh_token |-> WireToken(impl, rec)])],
                   "refresh_link")
    /\ UNCHANGED <<config, now, users, password_reset_tokens, email_verification_tokens>>

(* UPDATE refresh_tokens SET replaced_by = claims.tid WHERE id = stored_token.id *)
App_link_replaced_by(tokens, id, tid) ==
    [k \in DOMAIN tokens |->
        IF tokens[k].id = id THEN [tokens[k] EXCEPT !.replaced_by = Some(tid)]
                             ELSE tokens[k]]

(* ... and last write the audit link. *)
AppRefresh_Link(p) ==
    /\ impl = "app" /\ pc[p] = "refresh_link"
    /\ refresh_tokens' = App_link_replaced_by(refresh_tokens, Unwrap(loc[p].stored).id,
                                              Unwrap(loc[p].arg).token.tid)
    /\ Finish(p, loc[p], "Ok")
    /\ UNCHANGED <<config, now, users, password_reset_tokens, email_verification_tokens>>

(***************************************************************************)
(* logout                                                                  *)
(***************************************************************************)
(* plugin: decode without the signature check, revoke the record the claims name. *)
PluginLogout(p, token) ==
    /\ impl = "plugin" /\ Idle(p)
    /\ LET l == Begin("logout", [token |-> token])
           claims == decode(token, now, FALSE)
       IN  IF claims = None
           THEN /\ Finish(p, l, "InvalidToken")
                /\ UNCHANGED refresh_tokens
           ELSE /\ refresh_tokens' = Plugin_revoke_by_id(refresh_tokens, Unwrap(claims).tid, now)
                /\ Finish(p, l, "Ok")
    /\ UNCHANGED <<config, now, users, password_reset_tokens, email_verification_tokens>>

(* UPDATE refresh_tokens SET revoked_at = NOW() WHERE token_hash = $1 *)
App_revoke_by_hash(tokens, token_hash, t) ==
    [k \in DOMAIN tokens |->
        IF tokens[k].token_hash = token_hash THEN [tokens[k] EXCEPT !.revoked_at = Some(t)]
                                             ELSE tokens[k]]

AppLogout(p, token) ==
    /\ impl = "app" /\ Idle(p)
    /\ refresh_tokens' = App_revoke_by_hash(refresh_tokens, App_hash_token(token), now)
    /\ Finish(p, Begin("logout", [token |-> token]), "Ok")
    /\ UNCHANGED <<config, now, users, password_reset_tokens, email_verification_tokens>>

(***************************************************************************)
(* Single-use tokens: password reset and email verification.  A token is   *)
(* 32 random bytes; the nth draw differs from every earlier one.  Both     *)
(* tables have the columns id, user_id, token_hash, expires_at and used_at *)
(* (the app's email_verification_tokens calls the last one verified_at).   *)
(***************************************************************************)
random_token(n) == [rand |-> n]

(* String::new(), the answer of forgot_password for an unknown email. *)
EmptyToken == [rand |-> 0]

NewSingleUseRecord(i, id, user_id, token, expires_at) ==
    [id |-> id, user_id |-> user_id, token_hash |-> hash_token(i, token),
     expires_at |-> expires_at, used_at |-> None]

(* UPDATE ... SET used_at = NOW() WHERE user_id = $1 AND used_at IS NULL *)
invalidate_existing_tokens(tokens, user_id, t) ==
    [k \in DOMAIN tokens |->
        IF tokens[k].user_id = user_id /\ tokens[k].used_at = None
        THEN [tokens[k] EXCEPT !.used_at = Some(t)]
        ELSE tokens[k]]

(* Mutant: the SELECT does not ask for used_at IS NULL. *)
find_valid_token_UsedToo(tokens, token_hash, t) ==
    {k \in DOMAIN tokens : tokens[k].token_hash = token_hash /\ tokens[k].expires_at > t}

(* SELECT id, user_id FROM ... WHERE token_hash = $1 AND expires_at > NOW() AND used_at IS NULL *)
find_valid_token(tokens, token_hash, t) ==
    {k \in DOMAIN tokens :
        /\ tokens[k].token_hash = token_hash
        /\ tokens[k].expires_at > t
        /\ tokens[k].used_at = None}

(* Mutant: the UPDATE matches no row. *)
mark_token_used_NoRow(tokens, id, t) == tokens

(* UPDATE ... SET used_at = NOW() WHERE id = $1 *)
mark_token_used(tokens, id, t) ==
    [k \in DOMAIN tokens |->
        IF tokens[k].id = id THEN [tokens[k] EXCEPT !.used_at = Some(t)]
                             ELSE tokens[k]]

(***************************************************************************)
(* forgot_password                                                         *)
(***************************************************************************)
PluginForgot_Find(p, email) ==
    /\ impl = "plugin" /\ Idle(p)
    /\ LET l == Begin("forgot_password", [email |-> email])
           found == FindUserByEmail(email)
       IN  IF found = {} THEN Finish(p, [l EXCEPT !.out = Some(EmptyToken)], "Ok")
           ELSE Goto(p, [l EXCEPT !.user = Some(users[CHOOSE u \in found : TRUE])],
                     "forgot_invalidate")
    /\ UNCHANGED <<config, now, store>>

(* plugin: the tokens the account still has are marked used ... *)
PluginForgot_Invalidate(p) ==
    /\ impl = "plugin" /\ pc[p] = "forgot_invalidate"
    /\ password_reset_tokens' =
          invalidate_existing_tokens(password_reset_tokens, Unwrap(loc[p].user).id, now)
    /\ Goto(p, loc[p], "forgot_store")
    /\ UNCHANGED <<config, now, users, refresh_tokens, email_verification_tokens>>

(* app: the user is looked up and the token stored; nothing is invalidated. *)
AppForgot_Find(p, email) ==
    /\ impl = "app" /\ Idle(p)
    /\ LET l == Begin("forgot_password", [email |-> email])
           found == FindUserByEmail(to_lowercase(email))
       IN  IF found = {} THEN Finish(p, [l EXCEPT !.out = Some(EmptyToken)], "Ok")
           ELSE Goto(p, [l EXCEPT !.user = Some(users[CHOOSE u \in found : TRUE])],
                     "forgot_store")
    /\ UNCHANGED <<config, now, store>>

(* Both copies: INSERT the new token's record and return the token. *)
Forgot_Store(p) ==
    /\ pc[p] = "forgot_store"
    /\ LET id == Len(password_reset_tokens) + 1
           token == random_token(id)
           rec == NewSingleUseRecord(impl, id, Unwrap(loc[p].user).id, token,
                                     loc[p].at + password_reset_expiration)
       IN  /\ password_reset_tokens' = Append(password_reset_tokens, rec)
           /\ Finish(p, [loc[p] EXCEPT !.out = Some(token)], "Ok")
    /\ UNCHANGED <<config, now, users, refresh_tokens, email_verification_tokens>>

(***************************************************************************)
(* reset_password                                                          *)
(***************************************************************************)
(* plugin: the new password is validated before the token is looked up. *)
PluginReset_Lookup(p, token, password) ==
    /\ impl = "plugin" /\ Idle(p)
    /\ LET l == Begin("reset_password", [token |-> token, password |-> password])
           found == find_valid_token(password_reset_tokens, Plugin_hash_token(token), now)
       IN  IF ~Plugin_validate_password(password) THEN Finish(p, l, "WeakPassword")
           ELSE IF found = {} THEN Finish(p, l, "InvalidToken")
           ELSE Goto(p, [l EXCEPT !.stored = Some(password_reset_tokens[CHOOSE k \in found : TRUE])],
                     "reset_update")
    /\ UNCHANGED <<config, now, store>>

(* app: the token is looked up before the new password is validated. *)
AppReset_Lookup(p, token, password) ==
    /\ impl = "app" /\ Idle(p)
    /\ LET l == Begin("reset_password", [token |-> token, password |-> password])
           found == find_valid_token(password_reset_tokens, App_hash_token(token), now)
       IN  IF found = {} THEN Finish(p, l, "InvalidToken")
           ELSE IF ~App_validate_password(password) THEN Finish(p, l, "WeakPassword")
           ELSE Goto(p, [l EXCEPT !.stored = Some(password_reset_tokens[CHOOSE k \in found : TRUE])],
                     "reset_update")
    /\ UNCHANGED <<config, now, store>>

(* Both copies: UPDATE users SET password_hash = $1 ... WHERE id = $2, under a fresh salt. *)
Reset_UpdatePassword(p) ==
    /\ pc[p] = "reset_update"
    /\ \E salt \in Salts :
          users' = [users EXCEPT ![Unwrap(loc[p].stored).user_id].password_hash =
                                     hash_password(Unwrap(loc[p].arg).password, salt)]
    /\ Goto(p, loc[p], "reset_mark")
    /\ UNCHANGED <<config, now, refresh_tokens, password_reset_tokens,
                   email_verification_tokens>>

Reset_MarkUsed(p) ==
    /\ pc[p] = "reset_mark"
    /\ password_reset_tokens' =
          mark_token_used(password_reset_tokens, Unwrap(loc[p].stored).id, now)
    /\ Goto(p, loc[p], "reset_revoke_all")
    /\ UNCHANGED <<config, now, users, refresh_tokens, email_verification_tokens>>

Reset_RevokeAll(p) ==
    /\ pc[p] = "reset_revoke_all"
    /\ refresh_tokens' = revoke_all_tokens(refresh_tokens, Unwrap(loc[p].stored).user_id, now)
    /\ Finish(p, loc[p], "Ok")
    /\ UNCHANGED <<config, now, users, password_reset_tokens, email_verification_tokens>>

(***************************************************************************)
(* change_password                                                         *)
(***************************************************************************)
(* Both copies: SELECT the user by id, verify the current password, validate the new one. *)
ChangePassword_Find(p, user_id, current_password, new_password) ==
    /\ Idle(p)
    /\ LET l == Begin("change_password", [user_id |-> user_id,
                                          current_password |-> current_password,
                                          new_password |-> new_password])
           user == find_user_by_id(user_id)
       IN  IF user = None THEN Finish(p, l, "UserNotFound")
           ELSE IF PasswordHash_new(Unwrap(user).password_hash) = None
                THEN Finish(p, [l EXCEPT !.user = user], "Internal")
           ELSE IF ~verify_password(current_password, Unwrap(user).password_hash)
                THEN Finish(p, [l EXCEPT !.user = user], "InvalidCredentials")
           ELSE IF ~validate_password(impl, new_password)
                THEN Finish(p, [l EXCEPT !.user = user], "WeakPassword")
           ELSE Goto(p, [l EXCEPT !.user = user], "change_update")
    /\ UNCHANGED <<config, now, store>>

(* UPDATE users SET password_hash = $1 ... WHERE id = $2, under a fresh salt. *)
ChangePassword_Update(p) ==
    /\ pc[p] = "change_update"
    /\ \E salt \in Salts :
          users' = [users EXCEPT ![Unwrap(loc[p].arg).user_id].password_hash =
                                     hash_password(Unwrap(loc[p].arg).new_password, salt)]
    /\ Goto(p, loc[p], "change_revoke_all")
    /\ UNCHANGED <<config, now, refresh_tokens, password_reset_tokens,
                   email_verification_tokens>>

ChangePassword_RevokeAll(p) ==
    /\ pc[p] = "change_revoke_all"
    /\ refresh_tokens' = revoke_all_tokens(refresh_tokens, Unwrap(loc[p].arg).user_id, now)
    /\ Finish(p, loc[p], "Ok")
    /\ UNCHANGED <<config, now, users, password_reset_tokens, email_verification_tokens>>

(***************************************************************************)
(* create_email_verification and verify_email                              *)
(***************************************************************************)
(* plugin: the tokens the account still has are marked used ... *)
PluginCreateVerification_Invalidate(p, user_id) ==
    /\ impl = "plugin" /\ Idle(p)
    /\ email_verification_tokens' =
          invalidate_existing_tokens(email_verification_tokens, user_id, now)
    /\ Goto(p, Begin("create_email_verification", [user_id |-> user_id]), "verification_store")
    /\ UNCHANGED <<config, now, users, refresh_tokens, password_reset_tokens>>

StoreVerification(p, l) ==
    LET id == Len(email_verification_tokens) + 1
        token == random_token(id)
        rec == NewSingleUseRecord(impl, id, Unwrap(l.arg).user_id, token,
                                  l.at + email_verification_expiration)
    IN  /\ email_verification_tokens' = Append(email_verification_tokens, rec)
        /\ Finish(p, [l EXCEPT !.out = Some(token)], "Ok")

(* ... then the new token's record is inserted. *)
PluginCreateVerification_Store(p) ==
    /\ impl = "plugin" /\ pc[p] = "verification_store"
    /\ StoreVerification(p, loc[p])
    /\ UNCHANGED <<config, now, users, refresh_tokens, password_reset_tokens>>

(* app: the INSERT is the whole handler. *)
AppCreateVerification(p, user_id) ==
    /\ impl = "app" /\ Idle(p)
    /\ StoreVerification(p, Begin("create_email_verification", [user_id |-> user_id]))
    /\ UNCHANGED <<config, now, users, refresh_tokens, password_reset_tokens>>

Verify_Lookup(p, token) ==
    /\ Idle(p)
    /\ LET l == Begin("verify_email", [token |-> token])
           found == find_valid_token(email_verification_tokens, hash_token(impl, token), now)
       IN  IF found = {} THEN Finish(p, l, "InvalidToken")
           ELSE Goto(p, [l EXCEPT !.stored = Some(email_verification_tokens[CHOOSE k \in found : TRUE])],
                     "verify_user")
    /\ UNCHANGED <<config, now, store>>

(* UPDATE users SET email_verified_at = NOW(), status = 'active' WHERE id = $1 RETURNING * *)
Verify_UpdateUser(p) ==
    /\ pc[p] = "verify_user"
    /\ LET id == Unwrap(loc[p].stored).user_id
       IN  /\ users' = [users EXCEPT ![id].email_verified_at = Some(now),
                                     ![id].status = "active"]
           /\ Goto(p, [loc[p] EXCEPT !.user = Some(users'[id])], "verify_mark")
    /\ UNCHANGED <<config, now, refresh_tokens, password_reset_tokens,
                   email_verification_tokens>>

Verify_MarkUsed(p) ==
    /\ pc[p] = "verify_mark"
    /\ email_verification_tokens' =
          mark_token_used(email_verification_tokens, Unwrap(loc[p].stored).id, now)
    /\ Finish(p, [loc[p] EXCEPT !.out = loc[p].user], "Ok")
    /\ UNCHANGED <<config, now, users, refresh_tokens, password_reset_tokens>>

(* The single-use tokens callers hold: every token the service has handed out. *)
ResetTokensHeld ==
    {random_token(k) : k \in DOMAIN password_reset_tokens} \cup {EmptyToken}

VerificationTokensHeld == {random_token(k) : k \in DOMAIN email_verification_tokens}

(* The refresh tokens callers hold: every token the service has handed out. *)
IssuedTokens == {WireToken(impl, refresh_tokens[k]) : k \in DOMAIN refresh_tokens}

(* The clock advances while no call is running, up to a limit. *)
Tick(limit) ==
    /\ now < limit
    /\ now' = now + 1
    /\ UNCHANGED <<config, store, pc, loc, hist>>

(***************************************************************************)
(* Initial states: the accounts exist (registered earlier), no tokens.     *)
(***************************************************************************)
NewUser(u, status, verified) ==
    [id |-> u, email |-> EmailOf(u), password_hash |-> hash_password(PwSecret, "s1"),
     status |-> status, failed_login_attempts |-> 0, locked_until |-> None,
     email_verified_at |-> verified, last_login_at |-> None, last_login_ip |-> None]

Snapshot ==
    [users |-> users, refresh_tokens |-> refresh_tokens,
     password_reset_tokens |-> password_reset_tokens,
     email_verification_tokens |-> email_verification_tokens,
     hist |-> hist, now |-> now]

InitCommon ==
    /\ impl \in Impls
    /\ plugin = AuthPlugin_new
    /\ require_email_verification \in BOOLEAN
    /\ now = 0
    /\ refresh_tokens = <<>>
    /\ password_reset_tokens = <<>>
    /\ email_verification_tokens = <<>>
    /\ pc = [p \in Procs |-> "idle"]
    /\ loc = [p \in Procs |-> NoLocals]
    /\ hist = NoHistory

(* One caller at a time: a call begins when no call is running, and remembers the store. *)
Quiet == \A p \in Procs : Idle(p)

Call(A) == Quiet /\ A /\ pre' = Snapshot

Step(A) == A /\ UNCHANGED pre

(* The refresh_tokens table has room for one more record. *)
Room(limit) == Len(refresh_tokens) < limit

(***************************************************************************)
(* Logins of one caller at a time, with the clock: lockout and unlock.     *)
(***************************************************************************)
InitLockout ==
    /\ InitCommon
    /\ \E st \in Statuses, v \in {None, Some(0)} :
          users = [u \in Users |-> IF u = "u1" THEN NewUser(u, st, v)
                                               ELSE NewUser(u, "active", Some(0))]
    /\ pre = Snapshot

LoginPasswords == {PwSecret, PwOther}
LoginEmails == {EmailOf("u1"), "unknown@x.test"}

NextLockout ==
    \/ \E e \in LoginEmails, pw \in LoginPasswords, ip \in Ips :
          \/ Call(PluginLogin_Find(1, e, pw, ip))
          \/ Call(AppLogin_Find(1, e, pw, ip))
    \/ Step(PluginLogin_Increment(1))
    \/ Step(AppLogin_Increment(1))
    \/ Step(Login_Record(1))
    \/ Room(LockoutTokens) /\ Step(Login_Tokens(1))
    \/ Quiet /\ Step(Tick(LockoutTime))

SpecLockout == InitLockout /\ [][NextLockout]_vars

(***************************************************************************)
(* Logins and refreshes of one caller at a time, with the clock.           *)
(***************************************************************************)
NextGuard ==
    \/ \E e \in LoginEmails, pw \in LoginPasswords, ip \in Ips :
          \/ Call(PluginLogin_Find(1, e, pw, ip))
          \/ Call(AppLogin_Find(1, e, pw, ip))
    \/ Step(PluginLogin_Increment(1))
    \/ Step(AppLogin_Increment(1))
    \/ Step(Login_Record(1))
    \/ Room(GuardTokens) /\ Step(Login_Tokens(1))
    \/ \E token \in IssuedTokens :
          \/ Call(PluginRefresh_Lookup(1, token))
          \/ Call(AppRefresh_Lookup(1, token))
    \/ Step(Refresh_RevokeAll(1))
    \/ Step(PluginRefresh_GetUser(1))
    \/ Step(AppRefresh_GetUser(1))
    \/ Room(GuardTokens) /\ Step(PluginRefresh_Tokens(1))
    \/ Step(PluginRefresh_RevokeOld(1))
    \/ Step(AppRefresh_RevokeOld(1))
    \/ Room(GuardTokens) /\ Step(AppRefresh_Tokens(1))
    \/ Step(AppRefresh_Link(1))
    \/ Quiet /\ Step(Tick(GuardTime))

SpecGuard == InitLockout /\ [][NextGuard]_vars

(***************************************************************************)
(* Two callers logging in at once on the same active account.              *)
(***************************************************************************)
InitLoginRace ==
    /\ InitCommon
    /\ users = [u \in Users |-> NewUser(u, "active", Some(0))]
    /\ pre = Snapshot

NextLoginRace ==
    \E p \in Procs :
        \/ \E pw \in LoginPasswords, ip \in Ips :
              \/ Step(PluginLogin_Find(p, EmailOf("u1"), pw, ip))
              \/ Step(AppLogin_Find(p, EmailOf("u1"), pw, ip))
        \/ Step(PluginLogin_Increment(p))
        \/ Step(AppLogin_Increment(p))
        \/ Step(Login_Record(p))
        \/ Room(MaxTokens) /\ Step(Login_Tokens(p))

SpecLoginRace == InitLoginRace /\ [][NextLoginRace]_vars

(***************************************************************************)
(* Sessions of one caller at a time: login, refresh, logout, the clock.    *)
(***************************************************************************)
InitSession ==
    /\ impl \in Impls
    /\ plugin = AuthPlugin_new
    /\ require_email_verification = FALSE
    /\ now = 0
    /\ refresh_tokens = <<NewRefreshRecord(impl, 1, "u2", 0)>>
    /\ password_reset_tokens = <<>>
    /\ email_verification_tokens = <<>>
    /\ pc = [p \in Procs |-> "idle"]
    /\ loc = [p \in Procs |-> NoLocals]
    /\ hist = NoHistory
    /\ users = [u \in Users |-> NewUser(u, "active", Some(0))]
    /\ pre = Snapshot

NextSession ==
    \/ \E ip \in Ips :
          \/ Call(PluginLogin_Find(1, EmailOf("u1"), PwSecret, ip))
          \/ Call(AppLogin_Find(1, EmailOf("u1"), PwSecret, ip))
    \/ Step(Login_Record(1))
    \/ Room(MaxTokens) /\ Step(Login_Tokens(1))
    \/ \E token \in IssuedTokens :
          \/ Call(PluginRefresh_Lookup(1, token))
          \/ Call(AppRefresh_Lookup(1, token))
          \/ Call(PluginLogout(1, token))
          \/ Call(AppLogout(1, token))
    \/ Step(Refresh_RevokeAll(1))
    \/ Step(PluginRefresh_GetUser(1))
    \/ Step(AppRefresh_GetUser(1))
    \/ Room(MaxTokens) /\ Step(PluginRefresh_Tokens(1))
    \/ Step(PluginRefresh_RevokeOld(1))
    \/ Step(AppRefresh_RevokeOld(1))
    \/ Room(MaxTokens) /\ Step(AppRefresh_Tokens(1))
    \/ Step(AppRefresh_Link(1))
    \/ Quiet /\ Step(Tick(MaxTime))

SpecSession == InitSession /\ [][NextSession]_vars

(***************************************************************************)
(* Properties of sessions (checked under SpecSession).                     *)
(***************************************************************************)
Done(p, op) == pc[p] = "done" /\ loc[p].op = op

Presented(p) == Unwrap(loc[p].arg).token

(* The record a presented token names, in a table. *)
RecordOf(tokens, token) == tokens[token.tid]

RecordValid(i, rec, t) ==
    IF i = "plugin" THEN is_valid(rec, t)
                    ELSE ~App_is_revoked(rec) /\ ~App_is_expired(rec, t)

Revoked(rec) == rec.revoked_at # None

(* The signed expiry of the token, with the decoder's leeway, has not passed. *)
Decodes(token, t) == ~(token.exp + jwt_leeway < t)

(* C2, first half: rotation of a valid token of an account that can log in
   returns a new pair, stores a valid record for the new refresh token and
   leaves the presented record revoked. *)
C2_Rotates ==
    (/\ Done(1, "refresh_tokens")
     /\ RecordValid(impl, RecordOf(pre.refresh_tokens, Presented(1)), pre.now)
     /\ can_login(pre.users[Presented(1).sub], pre.now))
    => /\ loc[1].result = "Ok"
       /\ loc[1].out # None
       /\ LET r2 == Unwrap(loc[1].out).refresh_token
          IN  /\ r2.tid \notin DOMAIN pre.refresh_tokens
              /\ r2.tid \in DOMAIN refresh_tokens
              /\ RecordValid(impl, refresh_tokens[r2.tid], loc[1].ret)
              /\ refresh_tokens[r2.tid].user_id = Presented(1).sub
       /\ Revoked(RecordOf(refresh_tokens, Presented(1)))

(* C2 as claimed: any later refresh_tokens with a token that was rotated
   fails with TokenRevoked and issues nothing. *)
C2_AnyLaterRefreshIsTokenRevoked ==
    (Done(1, "refresh_tokens") /\ Presented(1).tid \in pre.hist.rotated)
    => /\ loc[1].result = "TokenRevoked"
       /\ loc[1].out = None
       /\ Len(refresh_tokens) = Len(pre.refresh_tokens)

(* C2 as amended: rotation as above; a later refresh_tokens with the rotated
   token issues nothing, and fails with TokenRevoked while the token's signed
   expiry (with the decoder's leeway) has not passed, with InvalidToken
   afterwards. *)
C2_Rotation ==
    /\ C2_Rotates
    /\ (Done(1, "refresh_tokens") /\ Presented(1).tid \in pre.hist.rotated)
       => /\ loc[1].result = IF Decodes(Presented(1), pre.now) THEN "TokenRevoked"
                                                                ELSE "InvalidToken"
          /\ loc[1].out = None
          /\ Len(refresh_tokens) = Len(pre.refresh_tokens)

(* Witness of C2: a rotated token was presented again and refused as revoked. *)
C2_Witness ==
    /\ Done(1, "refresh_tokens")
    /\ Presented(1).tid \in pre.hist.rotated
    /\ loc[1].result = "TokenRevoked"

AllRevokedOf(tokens, u) ==
    \A k \in DOMAIN tokens : tokens[k].user_id = u => Revoked(tokens[k])

OthersUnchanged(u) ==
    /\ Len(refresh_tokens) = Len(pre.refresh_tokens)
    /\ \A k \in DOMAIN refresh_tokens :
          refresh_tokens[k].user_id # u => refresh_tokens[k] = pre.refresh_tokens[k]

(* C3 as claimed: whenever refresh_tokens is called with a token whose stored
   record is revoked, it fails with TokenRevoked and leaves every refresh
   record of that account revoked and the other accounts' records unchanged. *)
C3_WheneverRevokedThenMassRevocation ==
    (Done(1, "refresh_tokens") /\ Revoked(RecordOf(pre.refresh_tokens, Presented(1))))
    => /\ loc[1].result = "TokenRevoked"
       /\ AllRevokedOf(refresh_tokens, Presented(1).sub)
       /\ OthersUnchanged(Presented(1).sub)

(* C3 as amended: the same for a token whose signature and signed expiry still
   verify; a token that no longer decodes is refused with InvalidToken and
   revokes nothing. *)
C3_MassRevocation ==
    (Done(1, "refresh_tokens") /\ Revoked(RecordOf(pre.refresh_tokens, Presented(1))))
    => IF Decodes(Presented(1), pre.now)
       THEN /\ loc[1].result = "TokenRevoked"
            /\ AllRevokedOf(refresh_tokens, Presented(1).sub)
            /\ OthersUnchanged(Presented(1).sub)
       ELSE /\ loc[1].result = "InvalidToken"
            /\ refresh_tokens = pre.refresh_tokens

(* Witness of C3: a reuse revoked a record of the account that was still unrevoked. *)
C3_Witness ==
    /\ Done(1, "refresh_tokens")
    /\ Revoked(RecordOf(pre.refresh_tokens, Presented(1)))
    /\ loc[1].result = "TokenRevoked"
    /\ \E k \in DOMAIN pre.refresh_tokens :
          /\ pre.refresh_tokens[k].user_id = Presented(1).sub
          /\ ~Revoked(pre.refresh_tokens[k])
          /\ Revoked(refresh_tokens[k])
    /\ \E k \in DOMAIN refresh_tokens : ~Revoked(refresh_tokens[k])

(* C10: logout on a token whose record is already revoked returns success and
   leaves the store exactly as it was. *)
C10_LogoutIdempotent ==
    (Done(1, "logout") /\ Revoked(RecordOf(pre.refresh_tokens, Presented(1))))
    => /\ loc[1].result = "Ok"
       /\ refresh_tokens = pre.refresh_tokens
       /\ users = pre.users

(***************************************************************************)
(* Two callers refreshing at once: every statement of one call may fall    *)
(* between two statements of the other.  The account logged in once.       *)
(***************************************************************************)
InitRace ==
    /\ impl \in Impls
    /\ plugin = AuthPlugin_new
    /\ require_email_verification = FALSE
    /\ now = 0
    /\ users = [u \in Users |-> NewUser(u, "active", Some(0))]
    /\ refresh_tokens = <<NewRefreshRecord(impl, 1, "u1", 0)>>
    /\ password_reset_tokens = <<>>
    /\ email_verification_tokens = <<>>
    /\ pc = [p \in Procs |-> "idle"]
    /\ loc = [p \in Procs |-> NoLocals]
    /\ hist = NoHistory
    /\ pre = Snapshot

NextRace ==
    \E p \in Procs :
        \/ \E token \in IssuedTokens :
              \/ Step(PluginRefresh_Lookup(p, token))
              \/ Step(AppRefresh_Lookup(p, token))
        \/ Step(Refresh_RevokeAll(p))
        \/ Step(PluginRefresh_GetUser(p))
        \/ Step(AppRefresh_GetUser(p))
        \/ Room(MaxTokens) /\ Step(PluginRefresh_Tokens(p))
        \/ Step(PluginRefresh_RevokeOld(p))
        \/ Step(AppRefresh_RevokeOld(p))
        \/ Room(MaxTokens) /\ Step(AppRefresh_Tokens(p))
        \/ Step(AppRefresh_Link(p))

SpecRace == InitRace /\ [][NextRace]_vars

(* C1: of two refresh_tokens calls presenting the same token, at most one is
   answered with a new pair. *)
C1_AtMostOneRefreshSucceeds ==
    \A p, q \in Procs :
        (/\ p # q
         /\ Done(p, "refresh_tokens") /\ Done(q, "refresh_tokens")
         /\ Presented(p) = Presented(q))
        => ~(loc[p].result = "Ok" /\ loc[q].result = "Ok")

(***************************************************************************)
(* Properties of the account guard.                                        *)
(***************************************************************************)
LoginArg(p) == Unwrap(loc[p].arg)

(* The account a finished login was about (its email has an account). *)
LoginFound(p) == Done(p, "login") /\ loc[p].user # None

LoginUser(p) == Unwrap(loc[p].user).id

(* C4: after max_login_attempts consecutive wrong-password logins that began
   at counter 0 on an active account, a login that starts before the lockout
   window has elapsed fails with AccountLocked, whatever its password, and
   issues no tokens. *)
C4_Lockout ==
    (/\ LoginFound(1)
     /\ pre.hist.streak[LoginUser(1)] >= max_login_attempts
     /\ pre.now < pre.hist.lastWrongAt[LoginUser(1)] + lockout_duration)
    => /\ loc[1].result = "AccountLocked"
       /\ loc[1].out = None
       /\ refresh_tokens = pre.refresh_tokens

(* Witness of C4: the refused login carried the correct password. *)
C4_Witness ==
    /\ LoginFound(1)
    /\ pre.hist.streak[LoginUser(1)] >= max_login_attempts
    /\ pre.now < pre.hist.lastWrongAt[LoginUser(1)] + lockout_duration
    /\ verify_password(LoginArg(1).password, pre.users[LoginUser(1)].password_hash)
    /\ loc[1].result = "AccountLocked"

(* C5: once the lockout window of a locked active account has elapsed, a
   login with the correct password succeeds and leaves counter 0, no
   lockout-expiry, and the last-login time and IP of this login. *)
C5_UnlockAfterWindow ==
    (/\ LoginFound(1)
     /\ pre.users[LoginUser(1)].status = "active"
     /\ pre.users[LoginUser(1)].locked_until # None
     /\ Unwrap(pre.users[LoginUser(1)].locked_until) <= pre.now
     /\ verify_password(LoginArg(1).password, pre.users[LoginUser(1)].password_hash))
    => /\ loc[1].result = "Ok"
       /\ users[LoginUser(1)].failed_login_attempts = 0
       /\ users[LoginUser(1)].locked_until = None
       /\ users[LoginUser(1)].last_login_at = Some(pre.now)
       /\ users[LoginUser(1)].last_login_ip = Some(LoginArg(1).ip)

(* C6: the step of a failed password check adds one to the stored counter,
   sets the lockout-expiry to now + lockout_duration if the new value reaches
   max_login_attempts, and otherwise leaves the lockout-expiry as it was. *)
C6_FailedPasswordCheck ==
    [][\A p \in Procs :
          (pc[p] = "login_increment" /\ pc'[p] = "done")
          => LET u == Unwrap(loc[p].user).id
                 n == users[u].failed_login_attempts + 1
             IN  /\ users'[u].failed_login_attempts = n
                 /\ users'[u].locked_until =
                       IF n >= max_login_attempts THEN Some(now + lockout_duration)
                                                  ELSE users[u].locked_until]_vars

(* C7: login and refresh_tokens hand out tokens only for an account that was
   active and not locked when the operation read it. *)
C7_TokensOnlyIfCanAuthenticate ==
    \A p \in Procs :
        (loc[p].op \in {"login", "refresh_tokens"} /\ loc[p].out # None)
        => /\ loc[p].user # None
           /\ LET user == Unwrap(loc[p].user)
              IN  /\ user.status = "active"
                  /\ user.locked_until = None \/ Unwrap(user.locked_until) <= loc[p].at
                  /\ Unwrap(loc[p].out).refresh_token.sub = user.id
                  /\ Unwrap(loc[p].out).access_token.sub = user.id

(* Witness of C7: a refresh was answered with tokens for an account whose
   lockout had been set and has elapsed. *)
C7_Witness ==
    /\ Done(1, "refresh_tokens")
    /\ loc[1].result = "Ok"
    /\ loc[1].out # None
    /\ Unwrap(loc[1].user).locked_until # None

(***************************************************************************)
(* Single-use tokens of one caller at a time.  The account registered and  *)
(* logged in once.  SpecReset: forgot_password, reset_password, the clock. *)
(* SpecSingleUse: these with create_email_verification and verify_email.   *)
(***************************************************************************)
InitReset ==
    /\ impl \in Impls
    /\ plugin = AuthPlugin_new
    /\ require_email_verification = FALSE
    /\ now = 0
    /\ users = [u \in Users |-> NewUser(u, "active", None)]
    /\ refresh_tokens = <<NewRefreshRecord(impl, 1, "u1", 0)>>
    /\ password_reset_tokens = <<>>
    /\ email_verification_tokens = <<>>
    /\ pc = [p \in Procs |-> "idle"]
    /\ loc = [p \in Procs |-> NoLocals]
    /\ hist = NoHistory
    /\ pre = Snapshot

ResetPasswords == {PwOther, PwShort}

NextReset ==
    \/ /\ Len(password_reset_tokens) < MaxResetTokens
       /\ \E email \in LoginEmails :
             \/ Call(PluginForgot_Find(1, email))
             \/ Call(AppForgot_Find(1, email))
    \/ Step(PluginForgot_Invalidate(1))
    \/ Step(Forgot_Store(1))
    \/ \E token \in ResetTokensHeld, password \in ResetPasswords :
          \/ Call(PluginReset_Lookup(1, token, password))
          \/ Call(AppReset_Lookup(1, token, password))
    \/ Step(Reset_UpdatePassword(1))
    \/ Step(Reset_MarkUsed(1))
    \/ Step(Reset_RevokeAll(1))
    \/ Quiet /\ Step(Tick(ResetTime))

SpecReset == InitReset /\ [][NextReset]_vars

NextSingleUse ==
    \/ /\ Len(password_reset_tokens) < MaxResetTokens
       /\ \E email \in LoginEmails :
             \/ Call(PluginForgot_Find(1, email))
             \/ Call(AppForgot_Find(1, email))
    \/ Step(PluginForgot_Invalidate(1))
    \/ Step(Forgot_Store(1))
    \/ \E token \in ResetTokensHeld, password \in ResetPasswords :
          \/ Call(PluginReset_Lookup(1, token, password))
          \/ Call(AppReset_Lookup(1, token, password))
    \/ Step(Reset_UpdatePassword(1))
    \/ Step(Reset_MarkUsed(1))
    \/ Step(Reset_RevokeAll(1))
    \/ /\ Len(email_verification_tokens) < MaxVerificationTokens
       /\ \/ Call(PluginCreateVerification_Invalidate(1, "u1"))
          \/ Call(AppCreateVerification(1, "u1"))
    \/ Step(PluginCreateVerification_Store(1))
    \/ \E token \in VerificationTokensHeld : Call(Verify_Lookup(1, token))
    \/ Step(Verify_UpdateUser(1))
    \/ Step(Verify_MarkUsed(1))
    \/ Quiet /\ Step(Tick(SingleUseTime))

SpecSingleUse == InitReset /\ [][NextSingleUse]_vars

(***************************************************************************)
(* Properties of single-use tokens.                                        *)
(***************************************************************************)
(* C8: a reset_password call with a token that an earlier reset_password call
   succeeded with does not succeed, leaves every password digest unchanged,
   and, when its new password is acceptable, fails with InvalidToken. *)
C8_ResetTokenSingleUse ==
    (Done(1, "reset_password") /\ LoginArg(1).token \in pre.hist.resetDone)
    => /\ loc[1].result \in {"InvalidToken", "WeakPassword"}
       /\ validate_password(impl, LoginArg(1).password) => loc[1].result = "InvalidToken"
       /\ users = pre.users

(* Witness of C8: a used token, not yet expired, was presented again with an
   acceptable password and refused. *)
C8_Witness ==
    /\ Done(1, "reset_password")
    /\ LoginArg(1).token \in pre.hist.resetDone
    /\ validate_password(impl, LoginArg(1).password)
    /\ \E k \in DOMAIN password_reset_tokens :
          /\ password_reset_tokens[k].token_hash = hash_token(impl, LoginArg(1).token)
          /\ password_reset_tokens[k].expires_at > pre.now
    /\ loc[1].result = "InvalidToken"

(* The tokens of a table that the lookup of reset_password / verify_email
   would still accept for the account. *)
UsableTokens(tokens, u, t) ==
    {k \in DOMAIN tokens :
        tokens[k].user_id = u /\ tokens[k].used_at = None /\ tokens[k].expires_at > t}

(* C9: between calls, an account has at most one usable reset token and at
   most one usable verification token. *)
C9_AtMostOneUsableToken ==
    Quiet => \A u \in Users :
                /\ Cardinality(UsableTokens(password_reset_tokens, u, now)) <= 1
                /\ Cardinality(UsableTokens(email_verification_tokens, u, now)) <= 1

(***************************************************************************)
(* Logout of one caller at a time, with the clock.  The caller presents    *)
(* tokens the service issued and copies of them whose signature is not the *)
(* service's.  Both accounts logged in earlier, u1 twice.                  *)
(***************************************************************************)
LogoutTime == 4

(* A token with the claims and secret of an issued one, signed with another key. *)
Forged(token) == [token EXCEPT !.sig = FALSE]

PresentableTokens == IssuedTokens \cup {Forged(token) : token \in IssuedTokens}

InitLogout ==
    /\ impl \in Impls
    /\ plugin = AuthPlugin_new
    /\ require_email_verification = FALSE
    /\ now = 0
    /\ users = [u \in Users |-> NewUser(u, "active", Some(0))]
    /\ refresh_tokens = <<NewRefreshRecord(impl, 1, "u2", 0),
                          NewRefreshRecord(impl, 2, "u1", 0),
                          NewRefreshRecord(impl, 3, "u1", 0)>>
    /\ password_reset_tokens = <<>>
    /\ email_verification_tokens = <<>>
    /\ pc = [p \in Procs |-> "idle"]
    /\ loc = [p \in Procs |-> NoLocals]
    /\ hist = NoHistory
    /\ pre = Snapshot

NextLogout ==
    \/ \E token \in PresentableTokens :
          \/ Call(PluginLogout(1, token))
          \/ Call(AppLogout(1, token))
    \/ Quiet /\ Step(Tick(LogoutTime))

SpecLogout == InitLogout /\ [][NextLogout]_vars

(* C11: logout with a token whose signature verifies answers Ok, whatever the
   token's expiry and the record's state, leaves the record the token names
   revoked and every other record as it was; logout with a token whose
   signature does not verify changes no record. *)
C11_LogoutRevokesTheReferencedRecord ==
    Done(1, "logout")
    => IF Presented(1).sig
       THEN /\ loc[1].result = "Ok"
            /\ Revoked(RecordOf(refresh_tokens, Presented(1)))
            /\ \A k \in DOMAIN refresh_tokens :
                  k # Presented(1).tid => refresh_tokens[k] = pre.refresh_tokens[k]
       ELSE refresh_tokens = pre.refresh_tokens

(***************************************************************************)
(* Password changes of one caller at a time, between logins, with the      *)
(* clock.  Both accounts logged in earlier.                                *)
(***************************************************************************)
ChangeTime == 1
ChangeTokens == 3

(* Ids a caller may pass: the accounts and an id no account has. *)
UserIds == Users \cup {"u9"}

ChangePasswords == {PwSecret, PwOther, PwShort}

InitChange ==
    /\ impl \in Impls
    /\ plugin = AuthPlugin_new
    /\ require_email_verification = FALSE
    /\ now = 0
    /\ users = [u \in Users |-> NewUser(u, "active", Some(0))]
    /\ refresh_tokens = <<NewRefreshRecord(impl, 1, "u2", 0),
                          NewRefreshRecord(impl, 2, "u1", 0)>>
    /\ password_reset_tokens = <<>>
    /\ email_verification_tokens = <<>>
    /\ pc = [p \in Procs |-> "idle"]
    /\ loc = [p \in Procs |-> NoLocals]
    /\ hist = NoHistory
    /\ pre = Snapshot

NextChange ==
    \/ \E user_id \in {"u1", "u9"}, current \in LoginPasswords, new \in ChangePasswords :
          Call(ChangePassword_Find(1, user_id, current, new))
    \/ Step(ChangePassword_Update(1))
    \/ Step(ChangePassword_RevokeAll(1))
    \/ \E pw \in LoginPasswords, ip \in Ips :
          \/ Call(PluginLogin_Find(1, EmailOf("u1"), pw, ip))
          \/ Call(AppLogin_Find(1, EmailOf("u1"), pw, ip))
    \/ Step(PluginLogin_Increment(1))
    \/ Step(AppLogin_Increment(1))
    \/ Step(Login_Record(1))
    \/ Room(ChangeTokens) /\ Step(Login_Tokens(1))
    \/ Quiet /\ Step(Tick(ChangeTime))

SpecChange == InitChange /\ [][NextChange]_vars

ChangeArg(p) == Unwrap(loc[p].arg)

(* C12: change_password for an existing account with the correct current
   password and an acceptable new password answers Ok, stores a digest of the
   new password and changes nothing else of the account, and leaves every
   refresh record of the account revoked and the other accounts' records as
   they were; with a wrong current password it answers InvalidCredentials and
   leaves the users and the refresh records as they were. *)
C12_ChangePassword ==
    (Done(1, "change_password") /\ ChangeArg(1).user_id \in Users)
    => LET u == ChangeArg(1).user_id
       IN  IF ~verify_password(ChangeArg(1).current_password, pre.users[u].password_hash)
           THEN /\ loc[1].result = "InvalidCredentials"
                /\ users = pre.users
                /\ refresh_tokens = pre.refresh_tokens
           ELSE validate_password(impl, ChangeArg(1).new_password)
                => /\ loc[1].result = "Ok"
                   /\ verify_password(ChangeArg(1).new_password, users[u].password_hash)
                   /\ users = [pre.users EXCEPT ![u].password_hash = users[u].password_hash]
                   /\ AllRevokedOf(refresh_tokens, u)
                   /\ OthersUnchanged(u)

(* Witness of C12: a change to another password succeeded and revoked a record
   of the account that was still unrevoked, while another account's record
   remains unrevoked. *)
C12_Witness ==
    /\ Done(1, "change_password")
    /\ loc[1].result = "Ok"
    /\ ~verify_password(ChangeArg(1).new_password, pre.users[ChangeArg(1).user_id].password_hash)
    /\ \E k \in DOMAIN pre.refresh_tokens :
          /\ pre.refresh_tokens[k].user_id = ChangeArg(1).user_id
          /\ ~Revoked(pre.refresh_tokens[k])
          /\ Revoked(refresh_tokens[k])
    /\ \E k \in DOMAIN refresh_tokens : ~Revoked(refresh_tokens[k])

(* The record of a reset token in a table (none for a token never issued). *)
ResetRecords(tokens, token) ==
    {k \in DOMAIN tokens : tokens[k].token_hash = hash_token(impl, token)}

(* C13: a reset_password call that answers Ok for an unused, unexpired token
   leaves the owning account's digest a digest of the new password, the token
   marked used and every refresh record of the account revoked; a call with
   an expired token answers InvalidToken and changes nothing. *)
C13_ResetEffects ==
    Done(1, "reset_password")
    => \A k \in ResetRecords(pre.password_reset_tokens, LoginArg(1).token) :
          LET rec == pre.password_reset_tokens[k]
          IN  IF ~(rec.expires_at > pre.now)
              THEN /\ loc[1].result = "InvalidToken"
                   /\ users = pre.users
                   /\ password_reset_tokens = pre.password_reset_tokens
                   /\ refresh_tokens = pre.refresh_tokens
              ELSE (rec.used_at = None /\ loc[1].result = "Ok")
                   => /\ verify_password(LoginArg(1).password,
                                         users[rec.user_id].password_hash)
                      /\ password_reset_tokens[k].used_at # None
                      /\ AllRevokedOf(refresh_tokens, rec.user_id)

(***************************************************************************)
(* Further properties of sessions (checked under SpecSession).             *)
(***************************************************************************)
RecordExpired(i, rec, t) ==
    IF i = "plugin" THEN is_expired(rec, t) ELSE App_is_expired(rec, t)

(* C14: refresh_tokens with a token whose stored record is expired and not
   revoked answers InvalidToken and leaves every refresh record as it was. *)
C14_ExpiredIsInvalidToken ==
    (/\ Done(1, "refresh_tokens")
     /\ ~Revoked(RecordOf(pre.refresh_tokens, Presented(1)))
     /\ RecordExpired(impl, RecordOf(pre.refresh_tokens, Presented(1)), pre.now))
    => /\ loc[1].result = "InvalidToken"
       /\ refresh_tokens = pre.refresh_tokens

(***************************************************************************)
(* Refreshes of one caller at a time, with the clock, where                *)
(* the caller also presents tokens it has tampered with: another signature *)
(* or, in the plugin, the JWT of one token with the secret of another or   *)
(* with a secret never issued.  Both accounts logged in earlier.            *)
(***************************************************************************)
ValidateTime == 3
ValidateTokens == 3

Secrets == {0} \cup {token.secret : token \in IssuedTokens}

TamperedTokens ==
    {Forged(token) : token \in IssuedTokens}
    \cup IF impl = "plugin"
         THEN {[token EXCEPT !.secret = s] : token \in IssuedTokens, s \in Secrets}
         ELSE {}

NextValidate ==
    \/ \E token \in IssuedTokens \cup TamperedTokens :
          \/ Call(PluginRefresh_Lookup(1, token))
          \/ Call(AppRefresh_Lookup(1, token))
    \/ Step(Refresh_RevokeAll(1))
    \/ Step(PluginRefresh_GetUser(1))
    \/ Step(AppRefresh_GetUser(1))
    \/ Room(ValidateTokens) /\ Step(PluginRefresh_Tokens(1))
    \/ Step(PluginRefresh_RevokeOld(1))
    \/ Step(AppRefresh_RevokeOld(1))
    \/ Room(ValidateTokens) /\ Step(AppRefresh_Tokens(1))
    \/ Step(AppRefresh_Link(1))
    \/ Quiet /\ Step(Tick(ValidateTime))

SpecValidate == InitChange /\ [][NextValidate]_vars

(* The hash the lookup of refresh_tokens computes from the presented token. *)
PresentedHash(i, token) ==
    IF i = "plugin" THEN Plugin_hash_token(token.secret) ELSE App_hash_token(token)

(* C15: refresh_tokens answers Ok only for a token whose signature and signed
   expiry verify, whose hash equals the hash stored in the record it names,
   and whose record is unrevoked and unexpired; for a token whose hash differs
   from the stored one it answers InvalidToken and changes nothing. *)
C15_RefreshValidation ==
    Done(1, "refresh_tokens")
    => LET token == Presented(1)
           rec == RecordOf(pre.refresh_tokens, token)
       IN  /\ loc[1].result = "Ok"
              => /\ token.sig
                 /\ Decodes(token, pre.now)
                 /\ rec.token_hash = PresentedHash(impl, token)
                 /\ RecordValid(impl, rec, pre.now)
           /\ rec.token_hash # PresentedHash(impl, token)
              => /\ loc[1].result = "InvalidToken"
                 /\ loc[1].out = None
                 /\ users = pre.users
                 /\ refresh_tokens = pre.refresh_tokens

(* Witness of C15: a token with a good signature, within its expiry, naming a
   valid record, but with another token's secret, was refused. *)
C15_Witness ==
    /\ Done(1, "refresh_tokens")
    /\ Presented(1).sig
    /\ Presented(1).secret # 0
    /\ Decodes(Presented(1), pre.now)
    /\ RecordValid(impl, RecordOf(pre.refresh_tokens, Presented(1)), pre.now)
    /\ RecordOf(pre.refresh_tokens, Presented(1)).token_hash # PresentedHash(impl, Presented(1))
    /\ loc[1].result = "InvalidToken"

(* C16: after a refresh_tokens call that answered Ok, the presented record's
   replaced_by holds the id of the refresh record minted by the call. *)
C16_ReplacedByLinksForward ==
    (Done(1, "refresh_tokens") /\ loc[1].result = "Ok")
    => RecordOf(refresh_tokens, Presented(1)).replaced_by
          = Some(Unwrap(loc[1].out).refresh_token.tid)

(***************************************************************************)
(* Further properties of login (checked under SpecLockout).                *)
(***************************************************************************)
(* Some account has the email, compared without case. *)
HasAccount(us, email) == \E u \in DOMAIN us : to_lowercase(us[u].email) = to_lowercase(email)

AccountOf(us, email) == CHOOSE u \in DOMAIN us : to_lowercase(us[u].email) = to_lowercase(email)

(* C17: login for an email that no account has answers InvalidCredentials and
   changes nothing; login with a wrong password for an active account that is
   not locked answers InvalidCredentials too. *)
C17_UnknownEmailIsInvalidCredentials ==
    Done(1, "login")
    => IF ~HasAccount(pre.users, LoginArg(1).email)
       THEN /\ loc[1].result = "InvalidCredentials"
            /\ loc[1].out = None
            /\ users = pre.users
            /\ refresh_tokens = pre.refresh_tokens
       ELSE LET user == pre.users[AccountOf(pre.users, LoginArg(1).email)]
            IN  (/\ user.status = "active"
                 /\ ~is_locked(user, pre.now)
                 /\ ~verify_password(LoginArg(1).password, user.password_hash))
                => loc[1].result = "InvalidCredentials"

(* Witness of C17: a login for an unknown email was refused while the known
   account had failed attempts on record. *)
C17_Witness ==
    /\ Done(1, "login")
    /\ ~HasAccount(pre.users, LoginArg(1).email)
    /\ loc[1].result = "InvalidCredentials"
    /\ pre.users["u1"].failed_login_attempts > 0

(***************************************************************************)
(* What the caller of the HTTP endpoints sees.                             *)
(***************************************************************************)
(* impl IntoResponse for AuthError: the status and the error code. *)
into_response(err) ==
    IF err = "InvalidCredentials" THEN [status |-> 401, error |-> "invalid_credentials"]
    ELSE IF err = "AccountLocked" THEN [status |-> 403, error |-> "account_locked"]
    ELSE IF err = "AccountNotActive" THEN [status |-> 403, error |-> "account_not_active"]
    ELSE IF err = "EmailNotVerified" THEN [status |-> 403, error |-> "email_not_verified"]
    ELSE IF err \in {"InvalidToken", "TokenRevoked"}
         THEN [status |-> 401, error |-> "invalid_token"]
    ELSE IF err = "UserNotFound" THEN [status |-> 404, error |-> "user_not_found"]
    ELSE IF err = "EmailExists" THEN [status |-> 409, error |-> "email_exists"]
    ELSE IF err = "WeakPassword" THEN [status |-> 400, error |-> "weak_password"]
    ELSE [status |-> 500, error |-> "internal_error"]

(* handlers::forgot_password: the JSON body answered for the service's Ok(token). *)
forgot_password_response(token) ==
    [status |-> 200,
     message |-> "If an account with that email exists, a password reset link has been sent.",
     reset_token |-> IF token # EmptyToken THEN Some(token) ELSE None]

(* The structure of that body: its fields and which of them are null. *)
ResponseStructure(body) ==
    [status |-> body.status, message |-> body.message,
     reset_token |-> IF body.reset_token = None THEN "null" ELSE "string"]

(***************************************************************************)
(* Two callers, one call at a time, probing emails: login and              *)
(* forgot_password for the email of u1 and for an email no account has.    *)
(* u1 is in any status, verified or not, unlocked or locked by five wrong  *)
(* logins made at time 0.                                                  *)
(***************************************************************************)
EnumerateTokens == 1
EnumerateResetTokens == 1

InitEnumerate ==
    /\ InitCommon
    /\ \E st \in Statuses, v \in {None, Some(0)}, locked \in BOOLEAN :
          users = [u \in Users |->
                      IF u = "u1"
                      THEN IF locked /\ st = "active"
                           THEN [NewUser(u, st, v) EXCEPT
                                    !.failed_login_attempts = max_login_attempts,
                                    !.locked_until = Some(lockout_duration)]
                           ELSE NewUser(u, st, v)
                      ELSE NewUser(u, "active", Some(0))]
    /\ pre = Snapshot

NextEnumerate ==
    \E p \in Procs :
        \/ \E e \in LoginEmails, pw \in LoginPasswords, ip \in Ips :
              \/ Call(PluginLogin_Find(p, e, pw, ip))
              \/ Call(AppLogin_Find(p, e, pw, ip))
        \/ Step(PluginLogin_Increment(p))
        \/ Step(AppLogin_Increment(p))
        \/ Step(Login_Record(p))
        \/ Room(EnumerateTokens) /\ Step(Login_Tokens(p))
        \/ /\ Len(password_reset_tokens) < EnumerateResetTokens
           /\ \E e \in LoginEmails :
                 \/ Call(PluginForgot_Find(p, e))
                 \/ Call(AppForgot_Find(p, e))
        \/ Step(PluginForgot_Invalidate(p))
        \/ Step(Forgot_Store(p))

SpecEnumerate == InitEnumerate /\ [][NextEnumerate]_vars

(* C18: a login that is refused with AccountLocked, EmailNotVerified or
   InvalidCredentials gets the same response as a login with the same
   password for an email that no account has. *)
C18_LoginRefusalsIndistinguishable ==
    \A p, q \in Procs :
        (/\ Done(p, "login") /\ Done(q, "login")
         /\ HasAccount(users, LoginArg(p).email)
         /\ ~HasAccount(users, LoginArg(q).email)
         /\ LoginArg(p).password = LoginArg(q).password
         /\ loc[p].result \in {"AccountLocked", "EmailNotVerified", "InvalidCredentials"})
        => into_response(loc[p].result) = into_response(loc[q].result)

(* C19: forgot_password answers success for a known and for an unknown email
   with bodies of the same structure, and for an unknown email the call
   changes nothing in the store. *)
C19_ForgotPasswordIndistinguishable ==
    /\ [](\A p, q \in Procs :
            (/\ Done(p, "forgot_password") /\ Done(q, "forgot_password")
             /\ HasAccount(users, LoginArg(p).email)
             /\ ~HasAccount(users, LoginArg(q).email))
            => /\ loc[p].result = "Ok" /\ loc[q].result = "Ok"
               /\ ResponseStructure(forgot_password_response(Unwrap(loc[p].out)))
                     = ResponseStructure(forgot_password_response(Unwrap(loc[q].out))))
    /\ [][\A p \in Procs :
            (/\ pc[p] # "done" /\ pc'[p] = "done"
             /\ loc'[p].op = "forgot_password"
             /\ ~HasAccount(users, Unwrap(loc'[p].arg).email))
            => UNCHANGED store]_vars

(***************************************************************************)
(* register                                                                *)
(***************************************************************************)
MaxUsers == 3

(* The ids the users table gives its rows (id UUID DEFAULT gen_random_uuid()). *)
UserRows == {"u1", "u2", "u3"}

RegisterEmails == {"a@x.test", "A@X.test", "b@x.test"}

RegisterPasswords == {PwSecret, PwShort}

(* plugin: email VARCHAR(255) NOT NULL UNIQUE, compared as stored. *)
Plugin_users_email_unique(us, email) == \A u \in DOMAIN us : us[u].email # email

(* app: the email of an account is unique. *)
App_users_email_unique(us, email) == \A u \in DOMAIN us : us[u].email # email

(* The row an INSERT INTO users ... RETURNING * creates. *)
InsertedUser(id, email, password_hash, status) ==
    [NewUser(id, status, None) EXCEPT !.email = email, !.password_hash = password_hash]

InsertUser(us, row) == [u \in DOMAIN us \cup {row.id} |-> IF u = row.id THEN row ELSE us[u]]

(* plugin: the strength check, then SELECT id FROM users WHERE email = $1. *)
PluginRegister_Find(p, email, password) ==
    /\ impl = "plugin" /\ Idle(p)
    /\ LET l == Begin("register", [email |-> email, password |-> password])
       IN  IF ~validate_password(impl, password) THEN Finish(p, l, "WeakPassword")
           ELSE IF FindUserByEmail(email) # {} THEN Finish(p, l, "EmailExists")
           ELSE Goto(p, l, "register_insert")
    /\ UNCHANGED <<config, now, store>>

(* app: find_user_by_email, then the strength check. *)
AppRegister_Find(p, email, password) ==
    /\ impl = "app" /\ Idle(p)
    /\ LET l == Begin("register", [email |-> email, password |-> password])
       IN  IF FindUserByEmail(to_lowercase(email)) # {} THEN Finish(p, l, "EmailExists")
           ELSE IF ~validate_password(impl, password) THEN Finish(p, l, "WeakPassword")
           ELSE Goto(p, l, "register_insert")
    /\ UNCHANGED <<config, now, store>>

(* plugin: INSERT INTO users (email, ...) VALUES ($1, ..., 'active'), $1 = req.email. *)
PluginRegister_Insert(p) ==
    /\ impl = "plugin" /\ pc[p] = "register_insert"
    /\ LET a == Unwrap(loc[p].arg)
           id == CHOOSE u \in UserRows : u \notin DOMAIN users
       IN  IF ~Plugin_users_email_unique(users, a.email)
           THEN Finish(p, loc[p], "Database") /\ UNCHANGED users
           ELSE \E salt \in Salts :
                   LET row == InsertedUser(id, a.email, hash_password(a.password, salt),
                                           "active")
                   IN  /\ users' = InsertUser(users, row)
                       /\ Finish(p, [loc[p] EXCEPT !.user = Some(row)], "Ok")
    /\ UNCHANGED <<config, now, refresh_tokens, password_reset_tokens,
                   email_verification_tokens>>

(* app: INSERT INTO users (email, ...) VALUES ($1, ..., $4), $1 = req.email.to_lowercase(). *)
AppRegister_Insert(p) ==
    /\ impl = "app" /\ pc[p] = "register_insert"
    /\ LET a == Unwrap(loc[p].arg)
           id == CHOOSE u \in UserRows : u \notin DOMAIN users
           status == IF require_email_verification THEN "pending" ELSE "active"
       IN  IF ~App_users_email_unique(users, to_lowercase(a.email))
           THEN Finish(p, loc[p], "Database") /\ UNCHANGED users
           ELSE \E salt \in Salts :
                   LET row == InsertedUser(id, to_lowercase(a.email),
                                           hash_password(a.password, salt), status)
                   IN  /\ users' = InsertUser(users, row)
                       /\ Finish(p, [loc[p] EXCEPT !.user = Some(row)], "Ok")
    /\ UNCHANGED <<config, now, refresh_tokens, password_reset_tokens,
                   email_verification_tokens>>

(* The users table has room for one more row. *)
RoomForUser == Cardinality(DOMAIN users) < MaxUsers

InitRegister ==
    /\ InitCommon
    /\ users = [u \in {"u1"} |-> NewUser(u, "active", Some(0))]
    /\ pre = Snapshot

(* register calls of two callers, statement by statement, in any order. *)
NextRegister ==
    \E p \in Procs :
        \/ \E email \in RegisterEmails, password \in RegisterPasswords :
              \/ PluginRegister_Find(p, email, password) /\ pre' = Snapshot
              \/ AppRegister_Find(p, email, password) /\ pre' = Snapshot
        \/ RoomForUser /\ Step(PluginRegister_Insert(p))
        \/ RoomForUser /\ Step(AppRegister_Insert(p))

SpecRegister == InitRegister /\ [][NextRegister]_vars

(* C20: every stored email is lowercase, no two accounts have the same email
   ignoring case, and a register call with an acceptable password that begins
   while an account has its email ignoring case is rejected with EmailExists. *)
C20_EmailsUniqueIgnoringCase ==
    /\ [](/\ \A u \in DOMAIN users : users[u].email = to_lowercase(users[u].email)
          /\ \A u, v \in DOMAIN users :
                u # v => to_lowercase(users[u].email) # to_lowercase(users[v].email))
    /\ [][\A p \in Procs :
             (/\ Idle(p) /\ loc'[p] # loc[p] /\ loc'[p].op = "register"
              /\ validate_password(impl, Unwrap(loc'[p].arg).password)
              /\ HasAccount(users, Unwrap(loc'[p].arg).email))
             => (pc'[p] = "done" /\ loc'[p].result = "EmailExists")]_vars

(* C21: a register call answered Ok created its account pending when email
   verification is required and active when it is not, and a register call
   rejected with WeakPassword or EmailExists leaves the users table as it was. *)
C21_RegisterStatus ==
    /\ [](\A p \in Procs :
             (Done(p, "register") /\ loc[p].result = "Ok")
             => Unwrap(loc[p].user).status =
                   (IF require_email_verification THEN "pending" ELSE "active"))
    /\ [][\A p \in Procs :
             (/\ Idle(p) /\ loc'[p] # loc[p] /\ loc'[p].op = "register"
              /\ loc'[p].result \in {"WeakPassword", "EmailExists"})
             => users' = users]_vars

(***************************************************************************)
(* SpecVerify: create_email_verification and verify_email, one call at a   *)
(* time, for an account that is pending or active and not yet verified.    *)
(***************************************************************************)
VerifyTime == 3

VerifyTokens == 2

InitVerify ==
    /\ InitCommon
    /\ \E st \in {"pending", "active"} :
          users = [u \in Users |-> IF u = "u1" THEN NewUser(u, st, None)
                                   ELSE NewUser(u, "active", Some(0))]
    /\ pre = Snapshot

NextVerify ==
    \/ /\ Len(email_verification_tokens) < VerifyTokens
       /\ \E user_id \in Users :
             \/ Call(PluginCreateVerification_Invalidate(1, user_id))
             \/ Call(AppCreateVerification(1, user_id))
    \/ Step(PluginCreateVerification_Store(1))
    \/ \E token \in VerificationTokensHeld \cup {EmptyToken} : Call(Verify_Lookup(1, token))
    \/ Step(Verify_UpdateUser(1))
    \/ Step(Verify_MarkUsed(1))
    \/ Quiet /\ Step(Tick(VerifyTime))

SpecVerify == InitVerify /\ [][NextVerify]_vars

(* The records of a table that carry the hash of a presented token. *)
VerificationRecords(tokens, token) ==
    {k \in DOMAIN tokens : tokens[k].token_hash = hash_token(impl, token)}

(* C22: verify_email with a token whose record is unused and unexpired answers
   Ok, sets the owner's email_verified_at to the time of the call and its
   status to active, changes nothing else of the accounts, and marks that
   record used; with any other token it answers InvalidToken and changes
   nothing; a record once used stays used, so the same token fails afterwards. *)
C22_VerifyEmail ==
    /\ [](Done(1, "verify_email") =>
            LET recs == VerificationRecords(pre.email_verification_tokens, LoginArg(1).token)
                live == {k \in recs :
                            /\ pre.email_verification_tokens[k].used_at = None
                            /\ pre.email_verification_tokens[k].expires_at > loc[1].at}
            IN  IF live # {}
                THEN \E k \in live :
                        LET owner == pre.email_verification_tokens[k].user_id
                        IN  /\ loc[1].result = "Ok"
                            /\ users = [pre.users EXCEPT
                                            ![owner].email_verified_at = Some(loc[1].at),
                                            ![owner].status = "active"]
                            /\ email_verification_tokens =
                                  [pre.email_verification_tokens EXCEPT
                                      ![k].used_at = Some(loc[1].at)]
                ELSE /\ loc[1].result = "InvalidToken"
                     /\ users = pre.users
                     /\ email_verification_tokens = pre.email_verification_tokens)
    /\ [][\A k \in DOMAIN email_verification_tokens :
             email_verification_tokens[k].used_at # None
             => email_verification_tokens'[k].used_at = email_verification_tokens[k].used_at]_vars

(* Witness of C22: a token that verified a pending account was presented
   again before its expiry and refused. *)
C22_Witness ==
    /\ Done(1, "verify_email") /\ loc[1].result = "InvalidToken"
    /\ \E k \in VerificationRecords(pre.email_verification_tokens, LoginArg(1).token) :
          /\ pre.email_verification_tokens[k].used_at # None
          /\ pre.email_verification_tokens[k].expires_at > loc[1].at
          /\ pre.email_verification_tokens[k].user_id = "u1"
    /\ users["u1"].status = "active" /\ users["u1"].email_verified_at # None

(***************************************************************************)
(* validate_access_token                                                   *)
(***************************************************************************)
AccessTime == 3

AccessResetTokens == 1

jwt_issuer == "rustpress"

jwt_audience == "rustpress-api"

(* The access token on the wire: the signed claims of generate_access_token. *)
AccessWire(claims) ==
    [sub |-> claims.sub, exp |-> claims.exp, sig |-> TRUE,
     iss |-> jwt_issuer, aud |-> jwt_audience]

(* Mutant: the validation asks the store for a live refresh record of the subject. *)
validate_access_token_Stored(token, t) ==
    IF \/ ~token.sig
       \/ token.exp + jwt_leeway < t
       \/ token.iss # jwt_issuer
       \/ token.aud # jwt_audience
       \/ ~\E k \in DOMAIN refresh_tokens :
              refresh_tokens[k].user_id = token.sub /\ refresh_tokens[k].revoked_at = None
    THEN [result |-> "InvalidToken", out |-> None]
    ELSE [result |-> "Ok", out |-> Some([sub |-> token.sub, exp |-> token.exp])]

(* decode under Validation::default() with issuer and audience set. *)
validate_access_token(token, t) ==
    IF \/ ~token.sig
       \/ token.exp + jwt_leeway < t
       \/ token.iss # jwt_issuer
       \/ token.aud # jwt_audience
    THEN [result |-> "InvalidToken", out |-> None]
    ELSE [result |-> "Ok", out |-> Some([sub |-> token.sub, exp |-> token.exp])]

ValidateAccessToken(p, token) ==
    /\ Idle(p)
    /\ LET l == Begin("validate_access_token", [token |-> token])
           r == validate_access_token(token, now)
       IN  Finish(p, [l EXCEPT !.out = r.out], r.result)
    /\ UNCHANGED <<config, now, store>>

(* The access tokens callers hold: one was minted with every refresh record. *)
IssuedAccessTokens ==
    {AccessWire(AccessToken(refresh_tokens[k].user_id,
                            refresh_tokens[k].expires_at - refresh_token_expiration)) :
        k \in DOMAIN refresh_tokens}

TamperedAccessTokens ==
    UNION {{[token EXCEPT !.sig = FALSE], [token EXCEPT !.iss = "other"],
            [token EXCEPT !.aud = "other"]} : token \in IssuedAccessTokens}

(* u1 has logged in twice. *)
InitAccess ==
    /\ impl \in Impls
    /\ plugin = AuthPlugin_new
    /\ require_email_verification = FALSE
    /\ now = 0
    /\ users = [u \in Users |-> NewUser(u, "active", Some(0))]
    /\ refresh_tokens = <<NewRefreshRecord(impl, 1, "u1", 0),
                          NewRefreshRecord(impl, 2, "u1", 0)>>
    /\ password_reset_tokens = <<>>
    /\ email_verification_tokens = <<>>
    /\ pc = [p \in Procs |-> "idle"]
    /\ loc = [p \in Procs |-> NoLocals]
    /\ hist = NoHistory
    /\ pre = Snapshot

(* The refresh tokens whose record is revoked: a replay of one is a reuse. *)
RevokedTokens ==
    {WireToken(impl, refresh_tokens[k]) :
        k \in {n \in DOMAIN refresh_tokens : refresh_tokens[n].revoked_at # None}}

(* Caller 2 validates access tokens; caller 1 logs out, replays a revoked
   refresh token, changes and resets the password of u1. *)
NextAccess ==
    \/ \E token \in IssuedAccessTokens \cup TamperedAccessTokens :
          Call(ValidateAccessToken(2, token))
    \/ \E token \in IssuedTokens :
          \/ Call(PluginLogout(1, token))
          \/ Call(AppLogout(1, token))
    \/ \E token \in RevokedTokens :
          \/ Call(PluginRefresh_Lookup(1, token))
          \/ Call(AppRefresh_Lookup(1, token))
    \/ Step(Refresh_RevokeAll(1))
    \/ Call(ChangePassword_Find(1, "u1", PwSecret, PwOther))
    \/ Step(ChangePassword_Update(1))
    \/ Step(ChangePassword_RevokeAll(1))
    \/ /\ Len(password_reset_tokens) < AccessResetTokens
       /\ \/ Call(PluginForgot_Find(1, EmailOf("u1")))
          \/ Call(AppForgot_Find(1, EmailOf("u1")))
    \/ Step(PluginForgot_Invalidate(1))
    \/ Step(Forgot_Store(1))
    \/ \E token \in ResetTokensHeld :
          \/ Call(PluginReset_Lookup(1, token, PwOther))
          \/ Call(AppReset_Lookup(1, token, PwOther))
    \/ Step(Reset_UpdatePassword(1))
    \/ Step(Reset_MarkUsed(1))
    \/ Step(Reset_RevokeAll(1))
    \/ Quiet /\ Step(Tick(AccessTime))

SpecAccess == InitAccess /\ [][NextAccess]_vars

(* What a validation must answer, from the token, the configuration and the time alone. *)
AccessTokenGood(token, t) ==
    /\ token.sig /\ token.iss = jwt_issuer /\ token.aud = jwt_audience
    /\ token.exp + jwt_leeway >= t

(* C23: a validate_access_token call answers Ok with the token's claims
   exactly when the token is signed, names the configured issuer and audience
   and is not past its expiry at the time of the call, whatever the store
   holds. *)
C23_AccessValidationStateless ==
    \A p \in Procs :
          Done(p, "validate_access_token") =>
             LET token == LoginArg(p).token
             IN  IF AccessTokenGood(token, loc[p].at)
                 THEN /\ loc[p].result = "Ok"
                      /\ loc[p].out = Some([sub |-> token.sub, exp |-> token.exp])
                 ELSE loc[p].result = "InvalidToken" /\ loc[p].out = None

(* Witness of C23: an access token of u1 validated while every refresh record
   of u1 is revoked and the password of u1 has been replaced. *)
C23_Witness ==
    /\ Done(2, "validate_access_token") /\ loc[2].result = "Ok"
    /\ LoginArg(2).token.sub = "u1"
    /\ \E k \in DOMAIN refresh_tokens : refresh_tokens[k].user_id = "u1"
    /\ \A k \in DOMAIN refresh_tokens :
          refresh_tokens[k].user_id = "u1" => refresh_tokens[k].revoked_at # None
    /\ verify_password(PwOther, users["u1"].password_hash)

(***************************************************************************)
(* Lifecycle of refresh records (checked under SpecSession).               *)
(***************************************************************************)
(* C24: a refresh record counts as valid exactly when it is not revoked and
   its expiry is later than now; no step removes a record, changes the id,
   owner or expiry of one, or clears the revoked time of one. *)
C24_RefreshRecordLifecycle ==
    /\ [](\A k \in DOMAIN refresh_tokens :
             RecordValid(impl, refresh_tokens[k], now)
             <=> (refresh_tokens[k].revoked_at = None /\ refresh_tokens[k].expires_at > now))
    /\ [][/\ Len(refresh_tokens') >= Len(refresh_tokens)
          /\ \A k \in DOMAIN refresh_tokens :
                /\ refresh_tokens'[k].id = refresh_tokens[k].id
                /\ refresh_tokens'[k].user_id = refresh_tokens[k].user_id
                /\ refresh_tokens'[k].expires_at = refresh_tokens[k].expires_at
                /\ refresh_tokens[k].revoked_at # None
                   => refresh_tokens'[k].revoked_at # None]_vars

(***************************************************************************)
(* SpecPassword: register, change_password, forgot_password and            *)
(* reset_password, one call at a time, with strong and weak passwords.     *)
(***************************************************************************)
PasswordUsers == 2

PasswordResetTokens == 1

PolicyPasswords == {PwSecret, PwLower, PwShort}

NextPassword ==
    \/ \E email \in {"b@x.test", "a@x.test"}, password \in PolicyPasswords :
          \/ Call(PluginRegister_Find(1, email, password))
          \/ Call(AppRegister_Find(1, email, password))
    \/ Cardinality(DOMAIN users) < PasswordUsers /\ Step(PluginRegister_Insert(1))
    \/ Cardinality(DOMAIN users) < PasswordUsers /\ Step(AppRegister_Insert(1))
    \/ \E current \in {PwSecret, PwLower}, new \in PolicyPasswords :
          Call(ChangePassword_Find(1, "u1", current, new))
    \/ Step(ChangePassword_Update(1))
    \/ Step(ChangePassword_RevokeAll(1))
    \/ /\ Len(password_reset_tokens) < PasswordResetTokens
       /\ \/ Call(PluginForgot_Find(1, EmailOf("u1")))
          \/ Call(AppForgot_Find(1, EmailOf("u1")))
    \/ Step(PluginForgot_Invalidate(1))
    \/ Step(Forgot_Store(1))
    \/ \E token \in ResetTokensHeld, password \in PolicyPasswords :
          \/ Call(PluginReset_Lookup(1, token, password))
          \/ Call(AppReset_Lookup(1, token, password))
    \/ Step(Reset_UpdatePassword(1))
    \/ Step(Reset_MarkUsed(1))
    \/ Step(Reset_RevokeAll(1))

SpecPassword == InitRegister /\ [][NextPassword]_vars

(* The policy of the specification: the length and the three character classes. *)
StrongPassword(password) ==
    /\ password.len >= min_password_length
    /\ password.upper /\ password.lower /\ password.digit

(* The password a register, change_password or reset_password call sets. *)
NewPasswordOf(l) ==
    IF l.op = "change_password" THEN Unwrap(l.arg).new_password ELSE Unwrap(l.arg).password

(* C25: a register, change_password or reset_password call is answered Ok only
   with a password that has the minimum length, an uppercase letter, a
   lowercase letter and a digit, and is answered WeakPassword only with a
   password that lacks one of these. *)
C25_PasswordPolicy ==
    \A p \in Procs :
        (pc[p] = "done" /\ loc[p].op \in {"register", "change_password", "reset_password"})
        => /\ loc[p].result = "Ok" => StrongPassword(NewPasswordOf(loc[p]))
           /\ loc[p].result = "WeakPassword" => ~StrongPassword(NewPasswordOf(loc[p]))

(***************************************************************************)
(* SpecDigest: logins, one at a time, for an active account whose stored   *)
(* digest is a good one, a PHC string of another algorithm, or no PHC      *)
(* string at all.                                                          *)
(***************************************************************************)
MalformedDigest == [alg |-> "malformed", salt |-> "", out |-> ""]

ForeignDigest == [alg |-> "pbkdf2-sha256", salt |-> "s1", out |-> "Secret123"]

InitDigest ==
    /\ InitCommon
    /\ \E digest \in {hash_password(PwSecret, "s1"), ForeignDigest, MalformedDigest} :
          users = [u \in Users |->
                      IF u = "u1"
                      THEN [NewUser(u, "active", Some(0)) EXCEPT !.password_hash = digest]
                      ELSE NewUser(u, "active", Some(0))]
    /\ pre = Snapshot

SpecDigest == InitDigest /\ [][NextLockout]_vars

(* C26: a login for an existing, active, unlocked account whose stored digest
   does not parse ends as a wrong password: InvalidCredentials, response 401. *)
C26_MalformedDigestFailsClosed ==
    (/\ Done(1, "login") /\ loc[1].user # None
     /\ Unwrap(loc[1].user).status = "active"
     /\ loc[1].result # "AccountLocked"
     /\ PasswordHash_new(Unwrap(loc[1].user).password_hash) = None)
    => /\ loc[1].result = "InvalidCredentials"
       /\ into_response(loc[1].result).status = 401

(***************************************************************************)
(* Stored token secrets (checked under SpecSingleUse).                     *)
(***************************************************************************)
(* The hash functions that are cryptographic: SHA-256 is; std's DefaultHasher
   (SipHash with a 64-bit output) is not. *)
CryptographicHashes == {"Sha256"}

(* The shape of a refresh token on the wire: a JWT, or a JWT and a random string. *)
WireFormat(token) == IF token.secret = 0 THEN "jwt" ELSE "jwt.random"

StoredTokenHashes ==
    {refresh_tokens[k].token_hash : k \in DOMAIN refresh_tokens}
    \cup {password_reset_tokens[k].token_hash : k \in DOMAIN password_reset_tokens}
    \cup {email_verification_tokens[k].token_hash : k \in DOMAIN email_verification_tokens}

(* C27: every token_hash stored for a refresh, password-reset or
   email-verification token is the output of a cryptographic hash function,
   and all refresh tokens handed out have one wire format. *)
C27_TokenSecretsHashed ==
    /\ \A h \in StoredTokenHashes : h.alg \in CryptographicHashes
    /\ \A a, b \in IssuedTokens : WireFormat(a) = WireFormat(b)

(***************************************************************************)
(* AuthConfig::validate                                                    *)
(***************************************************************************)
(* A jwt_secret, by its number of characters and of UTF-8 bytes: "short",
   31, 32 and 33 ASCII characters, and 16 two-byte characters. *)
JwtSecrets ==
    {[chars |-> 5, bytes |-> 5], [chars |-> 31, bytes |-> 31], [chars |-> 32, bytes |-> 32],
     [chars |-> 33, bytes |-> 33], [chars |-> 16, bytes |-> 32]}

(* String::len(): the length in bytes. *)
String_len(s) == s.bytes

AuthConfigs ==
    [jwt_secret : JwtSecrets,
     access_token_expiration : {-1, 0, 1, 900},
     refresh_token_expiration : {0, 1, 900, 604800},
     min_password_length : {0, 7, 8, 12}]

(* Mutant: the refresh expiration may equal the access expiration. *)
AuthConfig_validate_Equal(cfg) ==
    IF String_len(cfg.jwt_secret) < 32
    THEN [result |-> "Config", message |-> "JWT_SECRET must be at least 32 characters"]
    ELSE IF cfg.access_token_expiration <= 0
    THEN [result |-> "Config", message |-> "JWT_ACCESS_EXPIRATION must be positive"]
    ELSE IF cfg.refresh_token_expiration < cfg.access_token_expiration
    THEN [result |-> "Config",
          message |-> "JWT_REFRESH_EXPIRATION must be greater than JWT_ACCESS_EXPIRATION"]
    ELSE IF cfg.min_password_length < 8
    THEN [result |-> "Config", message |-> "MIN_PASSWORD_LENGTH must be at least 8"]
    ELSE [result |-> "Ok", message |-> ""]

AuthConfig_validate(cfg) ==
    IF String_len(cfg.jwt_secret) < 32
    THEN [result |-> "Config", message |-> "JWT_SECRET must be at least 32 characters"]
    ELSE IF cfg.access_token_expiration <= 0
    THEN [result |-> "Config", message |-> "JWT_ACCESS_EXPIRATION must be positive"]
    ELSE IF cfg.refresh_token_expiration <= cfg.access_token_expiration
    THEN [result |-> "Config",
          message |-> "JWT_REFRESH_EXPIRATION must be greater than JWT_ACCESS_EXPIRATION"]
    ELSE IF cfg.min_password_length < 8
    THEN [result |-> "Config", message |-> "MIN_PASSWORD_LENGTH must be at least 8"]
    ELSE [result |-> "Ok", message |-> ""]

Validate(p, cfg) ==
    /\ Idle(p)
    /\ LET r == AuthConfig_validate(cfg)
       IN  Finish(p, [Begin("validate", cfg) EXCEPT !.out = Some(r.message)], r.result)
    /\ UNCHANGED <<config, now, store>>

InitConfig ==
    /\ InitCommon
    /\ users = [u \in Users |-> NewUser(u, "active", Some(0))]
    /\ pre = Snapshot

NextConfig == \E cfg \in AuthConfigs : Call(Validate(1, cfg))

SpecConfig == InitConfig /\ [][NextConfig]_vars

(* What validate must accept, with the secret measured by a given length. *)
ConfigAcceptable(cfg, secret_length) ==
    /\ secret_length >= 32
    /\ cfg.access_token_expiration > 0
    /\ cfg.refresh_token_expiration > cfg.access_token_expiration
    /\ cfg.min_password_length >= 8

(* C28 as stated: validate answers Ok exactly when jwt_secret has at least 32
   characters, access_token_expiration is positive, refresh_token_expiration
   is greater than it and min_password_length is at least 8, and a Config
   error otherwise. *)
C28_ConfigValidationByCharacters ==
    Done(1, "validate") =>
        IF ConfigAcceptable(LoginArg(1), LoginArg(1).jwt_secret.chars)
        THEN loc[1].result = "Ok"
        ELSE loc[1].result = "Config"

(* C28, amended: the same with the secret's length counted in bytes. *)
C28_ConfigValidation ==
    Done(1, "validate") =>
        IF ConfigAcceptable(LoginArg(1), LoginArg(1).jwt_secret.bytes)
        THEN loc[1].result = "Ok"
        ELSE loc[1].result = "Config"

(* Witness of C28: a secret of 16 characters in 32 bytes was accepted, and the
   same configuration with a refresh expiration equal to the access
   expiration would be refused. *)
C28_Witness ==
    /\ Done(1, "validate") /\ loc[1].result = "Ok"
    /\ LoginArg(1).jwt_secret.chars < 32
    /\ AuthConfig_validate([LoginArg(1) EXCEPT !.refresh_token_expiration =
                                LoginArg(1).access_token_expiration]).result = "Config"

(***************************************************************************)
(* AuthPlugin: activate and deactivate.  Every write of a field takes that *)
(* field's lock by itself, so each is a step of its own.                   *)
(***************************************************************************)
(* What the environment holds when activate reads it: no JWT_SECRET, a
   configuration that validates, one that does not. *)
ValidConfig ==
    [jwt_secret |-> [chars |-> 32, bytes |-> 32], access_token_expiration |-> 900,
     refresh_token_expiration |-> 604800, min_password_length |-> 8]

EnvConfigs == {ValidConfig, [ValidConfig EXCEPT !.jwt_secret = [chars |-> 5, bytes |-> 5]]}

Pools == {"pool"}

(* run_migrations, then AuthConfig::from_env() and validate(), then AuthService::new. *)
Activate_Migrate(p, db, migrated, cfg) ==
    /\ Idle(p)
    /\ LET l == Begin("activate", [db |-> db])
       IN  IF ~migrated THEN Finish(p, l, "Database")
           ELSE IF AuthConfig_validate(cfg).result # "Ok" THEN Finish(p, l, "Config")
           ELSE Goto(p, [l EXCEPT !.stored = Some(cfg)], "activate_db")
    /\ UNCHANGED <<config, now, store>>

PluginWrite(p, field, value, next) ==
    /\ plugin' = [plugin EXCEPT ![field] = value]
    /\ IF next = "done" THEN Finish(p, loc[p], "Ok") ELSE Goto(p, loc[p], next)
    /\ UNCHANGED <<impl, require_email_verification, now, store>>

Activate_Db(p) ==
    pc[p] = "activate_db" /\ PluginWrite(p, "db", Some(Unwrap(loc[p].arg).db), "activate_config")

Activate_Config(p) ==
    pc[p] = "activate_config" /\ PluginWrite(p, "config", loc[p].stored, "activate_service")

Activate_Service(p) ==
    /\ pc[p] = "activate_service"
    /\ PluginWrite(p, "auth_service",
                   Some([db |-> Unwrap(loc[p].arg).db, config |-> Unwrap(loc[p].stored)]),
                   "activate_state")

Activate_State(p) == pc[p] = "activate_state" /\ PluginWrite(p, "state", "Active", "done")

Deactivate_Service(p) ==
    /\ Idle(p)
    /\ plugin' = [plugin EXCEPT !.auth_service = None]
    /\ Goto(p, Begin("deactivate", [db |-> None]), "deactivate_config")
    /\ UNCHANGED <<impl, require_email_verification, now, store>>

Deactivate_Config(p) ==
    pc[p] = "deactivate_config" /\ PluginWrite(p, "config", None, "deactivate_db")

Deactivate_Db(p) == pc[p] = "deactivate_db" /\ PluginWrite(p, "db", None, "deactivate_state")

Deactivate_State(p) == pc[p] = "deactivate_state" /\ PluginWrite(p, "state", "Inactive", "done")

InitPlugin ==
    /\ impl = "plugin"
    /\ require_email_verification = FALSE
    /\ plugin = AuthPlugin_new
    /\ now = 0
    /\ users = [u \in Users |-> NewUser(u, "active", Some(0))]
    /\ refresh_tokens = <<>>
    /\ password_reset_tokens = <<>>
    /\ email_verification_tokens = <<>>
    /\ pc = [p \in Procs |-> "idle"]
    /\ loc = [p \in Procs |-> NoLocals]
    /\ hist = NoHistory
    /\ pre = Snapshot

(* activate and deactivate calls of two tasks, field write by field write, in any order. *)
NextPlugin ==
    \E p \in Procs :
        \/ \E db \in Pools, migrated \in BOOLEAN, cfg \in EnvConfigs :
              Step(Activate_Migrate(p, db, migrated, cfg))
        \/ Step(Activate_Db(p))
        \/ Step(Activate_Config(p))
        \/ Step(Activate_Service(p))
        \/ Step(Activate_State(p))
        \/ Step(Deactivate_Service(p))
        \/ Step(Deactivate_Config(p))
        \/ Step(Deactivate_Db(p))
        \/ Step(Deactivate_State(p))

SpecPlugin == InitPlugin /\ [][NextPlugin]_vars

(* The step with which caller p ends a call of op. *)
Ends(p, op) == pc[p] # "done" /\ pc'[p] = "done" /\ loc'[p].op = op

(* C29: a new plugin is Inactive with no config, service or db; while no
   activate or deactivate is running the state is Active exactly when
   auth_service is present; an activate that ends Ok leaves the state Active,
   a deactivate leaves the plugin Inactive with config, service and db
   cleared, and an activate that ends with an error changes nothing. *)
C29_PluginLifecycle ==
    /\ plugin = AuthPlugin_new
    /\ [](Quiet => (plugin.state = "Active" <=> plugin.auth_service # None))
    /\ [][\A p \in Procs :
             /\ (Ends(p, "activate") /\ loc'[p].result = "Ok") => plugin'.state = "Active"
             /\ (Ends(p, "activate") /\ loc'[p].result # "Ok") => plugin' = plugin
             /\ Ends(p, "deactivate") => plugin' = AuthPlugin_new]_vars

(***************************************************************************)
(* SpecWrongRace: logins of two callers for u1, statement by statement in  *)
(* any order, all with a wrong password: no login succeeds, so the steps   *)
(* after a passed password check never run.                                *)
(***************************************************************************)
NextWrongRace ==
    \E p \in Procs :
        \/ \E ip \in Ips :
              \/ Step(PluginLogin_Find(p, EmailOf("u1"), PwOther, ip))
              \/ Step(AppLogin_Find(p, EmailOf("u1"), PwOther, ip))
        \/ Step(PluginLogin_Increment(p))
        \/ Step(AppLogin_Increment(p))

SpecWrongRace == InitLoginRace /\ [][NextWrongRace]_vars

(* The last login of caller p was refused for a wrong password of account u,
   whose counter it had read as n. *)
WrongPasswordLogin(p, u, n) ==
    /\ Done(p, "login") /\ loc[p].result = "InvalidCredentials"
    /\ loc[p].user # None
    /\ Unwrap(loc[p].user).id = u
    /\ Unwrap(loc[p].user).failed_login_attempts = n

(* C30: when the last logins of the two callers were both refused for a wrong
   password of the same account and both had read the counter at the same
   value (each read it before the other wrote), the stored counter is that
   value plus two, and the lockout-expiry is set if this reaches
   max_login_attempts. *)
C30_NoLostAttempt ==
    \A u \in Users, n \in 0..max_login_attempts :
        (WrongPasswordLogin(1, u, n) /\ WrongPasswordLogin(2, u, n))
        => /\ users[u].failed_login_attempts = n + 2
           /\ n + 2 >= max_login_attempts => users[u].locked_until # None


(***************************************************************************)
(* C31: in logins of two callers interleaved statement by statement, from  *)
(* counter 0: at most max_login_attempts login calls have their password   *)
(* verified (and found wrong) before the lock takes effect, and a login    *)
(* call that starts while the account is locked is answered AccountLocked  *)
(* in its first step, without a password check.                            *)
(***************************************************************************)
C31_LockoutBoundsGuessing ==
    /\ [](\A u \in Users : hist.checked[u] <= max_login_attempts)
    /\ [][\A p \in Procs :
             (/\ Idle(p) /\ loc'[p] # loc[p]
              /\ loc'[p].op = "login"
              /\ loc'[p].user # None
              /\ LET row == users[Unwrap(loc'[p].user).id]
                 IN  row.locked_until # None /\ Unwrap(row.locked_until) > now)
             => /\ pc'[p] = "done"
                /\ loc'[p].result = "AccountLocked"
                /\ users' = users]_vars

(***************************************************************************)
(* SpecSessionChange: caller 1 rotates refresh tokens of u1 while caller 2 *)
(* changes or resets u1's password, statement by statement in any order.   *)
(* Nobody logs in, and the clock stands still: a record is valid exactly   *)
(* while it is unrevoked.                                                  *)
(***************************************************************************)
SessionChangeTokens == 3
SessionChangeResetTokens == 1

NextSessionChange ==
    \/ \E token \in IssuedTokens :
          \/ Step(PluginRefresh_Lookup(1, token))
          \/ Step(AppRefresh_Lookup(1, token))
    \/ Step(Refresh_RevokeAll(1))
    \/ Step(PluginRefresh_GetUser(1))
    \/ Step(AppRefresh_GetUser(1))
    \/ Room(SessionChangeTokens) /\ Step(PluginRefresh_Tokens(1))
    \/ Step(PluginRefresh_RevokeOld(1))
    \/ Step(AppRefresh_RevokeOld(1))
    \/ Room(SessionChangeTokens) /\ Step(AppRefresh_Tokens(1))
    \/ Step(AppRefresh_Link(1))
    \/ \E current \in LoginPasswords, new \in LoginPasswords :
          Step(ChangePassword_Find(2, "u1", current, new))
    \/ Step(ChangePassword_Update(2))
    \/ Step(ChangePassword_RevokeAll(2))
    \/ /\ Len(password_reset_tokens) < SessionChangeResetTokens
       /\ \/ Step(PluginForgot_Find(2, EmailOf("u1")))
          \/ Step(AppForgot_Find(2, EmailOf("u1")))
    \/ Step(PluginForgot_Invalidate(2))
    \/ Step(Forgot_Store(2))
    \/ \E token \in ResetTokensHeld :
          \/ Step(PluginReset_Lookup(2, token, PwOther))
          \/ Step(AppReset_Lookup(2, token, PwOther))
    \/ Step(Reset_UpdatePassword(2))
    \/ Step(Reset_MarkUsed(2))
    \/ Step(Reset_RevokeAll(2))

SpecSessionChange == InitReset /\ [][NextSessionChange]_vars

(* The account whose password a finished change_password or reset_password
   call of caller p replaced. *)
PasswordChangedFor(p) ==
    IF loc[p].op = "change_password" THEN Unwrap(loc[p].arg).user_id
                                     ELSE Unwrap(loc[p].stored).user_id

(* C32: once change_password or reset_password has answered Ok, and until the
   caller starts its next call, the account has no valid refresh record (no
   login runs here, so no record is created by a later login); in particular
   a refresh_tokens call that judged its token before the change and goes on
   after it leaves no valid record. *)
C32_NoSessionSurvivesPasswordChange ==
    \A p \in Procs :
        (/\ Done(p, "change_password") \/ Done(p, "reset_password")
         /\ loc[p].result = "Ok")
        => \A k \in DOMAIN refresh_tokens :
              refresh_tokens[k].user_id = PasswordChangedFor(p)
              => ~RecordValid(impl, refresh_tokens[k], now)

(***************************************************************************)
(* SpecTokenRace: two callers present the same single-use tokens,          *)
(* statement by statement in any order.  forgot_password and               *)
(* create_email_verification have each stored one token for u1, which is   *)
(* pending; the clock stands still, so neither token expires.              *)
(***************************************************************************)
TokenRacePasswords == {PwSecret, PwOther}

InitTokenRace ==
    /\ impl \in Impls
    /\ plugin = AuthPlugin_new
    /\ require_email_verification = TRUE
    /\ now = 0
    /\ users = [u \in Users |-> IF u = "u1" THEN NewUser(u, "pending", None)
                                             ELSE NewUser(u, "active", Some(0))]
    /\ refresh_tokens = <<>>
    /\ password_reset_tokens =
          <<NewSingleUseRecord(impl, 1, "u1", random_token(1), password_reset_expiration)>>
    /\ email_verification_tokens =
          <<NewSingleUseRecord(impl, 1, "u1", random_token(1), email_verification_expiration)>>
    /\ pc = [p \in Procs |-> "idle"]
    /\ loc = [p \in Procs |-> NoLocals]
    /\ hist = NoHistory
    /\ pre = Snapshot

NextTokenRace ==
    \E p \in Procs :
        \/ \E token \in ResetTokensHeld \ {EmptyToken}, password \in TokenRacePasswords :
              \/ Step(PluginReset_Lookup(p, token, password))
              \/ Step(AppReset_Lookup(p, token, password))
        \/ Step(Reset_UpdatePassword(p))
        \/ Step(Reset_MarkUsed(p))
        \/ Step(Reset_RevokeAll(p))
        \/ \E token \in VerificationTokensHeld : Step(Verify_Lookup(p, token))
        \/ Step(Verify_UpdateUser(p))
        \/ Step(Verify_MarkUsed(p))

SpecTokenRace == InitTokenRace /\ [][NextTokenRace]_vars

(* The last calls of both callers were op, finished, with the same token. *)
BothPresented(op) ==
    /\ Done(1, op) /\ Done(2, op)
    /\ Unwrap(loc[1].arg).token = Unwrap(loc[2].arg).token

(* C33: when the last calls of the two callers are reset_password calls (or
   verify_email calls) with the same token, in whatever order their
   statements ran, they were not both answered Ok, and if one was answered Ok
   the other was answered InvalidToken. *)
C33_SingleUseUnderConcurrency ==
    \A op \in {"reset_password", "verify_email"} :
        BothPresented(op)
        => /\ ~(loc[1].result = "Ok" /\ loc[2].result = "Ok")
           /\ loc[1].result = "Ok" => loc[2].result = "InvalidToken"
           /\ loc[2].result = "Ok" => loc[1].result = "InvalidToken"

(***************************************************************************)
(* SpecVerifyBlocked: create_email_verification and verify_email of one    *)
(* caller at a time, with the clock, for an account of any status.         *)
(***************************************************************************)
SpecVerifyBlocked == InitLockout /\ [][NextVerify]_vars

(* C34: verify_email leaves the status of a suspended or deleted account as
   it was; of the accounts only one that was pending changes its status. *)
C34_VerifyKeepsBlockedAccounts ==
    Done(1, "verify_email")
    => \A u \in DOMAIN pre.users :
          /\ pre.users[u].status \in {"suspended", "deleted"}
             => users[u].status = pre.users[u].status
          /\ users[u].status # pre.users[u].status => pre.users[u].status = "pending"

(***************************************************************************)
(* Refused logins leave the store alone.                                   *)
(***************************************************************************)
(* The account's lockout-expiry is set and in the future. *)
LockedAt(row, t) == row.locked_until # None /\ Unwrap(row.locked_until) > t

(* C35: a login call for an account that is locked or not active when the
   call begins answers AccountLocked if locked, and otherwise
   AccountNotActive or EmailNotVerified; no password has been verified for
   it, it returns no tokens, and users (counter, lockout-expiry) and the
   token tables are as they were. *)
C35_RefusedLoginChangesNothing ==
    (/\ LoginFound(1)
     /\ \/ LockedAt(pre.users[LoginUser(1)], pre.now)
        \/ pre.users[LoginUser(1)].status # "active")
    => /\ IF LockedAt(pre.users[LoginUser(1)], pre.now)
          THEN loc[1].result = "AccountLocked"
          ELSE loc[1].result \in {"AccountNotActive", "EmailNotVerified"}
       /\ hist.checked = pre.hist.checked
       /\ loc[1].out = None
       /\ users = pre.users
       /\ refresh_tokens = pre.refresh_tokens
       /\ password_reset_tokens = pre.password_reset_tokens
       /\ email_verification_tokens = pre.email_verification_tokens

(* Witness of C35: a login with a wrong password on a locked account whose
   counter stands at max_login_attempts was refused with AccountLocked. *)
C35_Witness ==
    /\ LoginFound(1)
    /\ LockedAt(pre.users[LoginUser(1)], pre.now)
    /\ pre.users[LoginUser(1)].failed_login_attempts = max_login_attempts
    /\ ~verify_password(LoginArg(1).password, pre.users[LoginUser(1)].password_hash)
    /\ loc[1].result = "AccountLocked"
    /\ users = pre.users

(***************************************************************************)
(* C36: in every state an account with a lockout-expiry has a counter of   *)
(* at least max_login_attempts (so an account with a lower counter has no  *)
(* lockout-expiry), and a step lowers an account's counter only if it is   *)
(* the UPDATE of record_successful_login of a login for that account.      *)
(***************************************************************************)
C36_CounterAndLock ==
    /\ [](\A u \in DOMAIN users :
             /\ users[u].locked_until # None
                => users[u].failed_login_attempts >= max_login_attempts
             /\ users[u].failed_login_attempts < max_login_attempts
                => users[u].locked_until = None)
    /\ [][\A u \in DOMAIN users :
             users'[u].failed_login_attempts < users[u].failed_login_attempts
             => \E p \in Procs :
                   /\ pc[p] = "login_record" /\ pc'[p] = "login_tokens"
                   /\ Unwrap(loc[p].user).id = u]_vars

(***************************************************************************)
(* The counter outlives the lockout window.                                *)
(***************************************************************************)
(* The lockout-expiry of the account is set and has passed. *)
WindowElapsed(row, t) == row.locked_until # None /\ Unwrap(row.locked_until) <= t

(* C37: a wrong-password login for an active account whose lockout window has
   elapsed (its counter was not reset by a successful login) answers
   InvalidCredentials, adds one to the counter and sets the lockout-expiry to
   now + lockout_duration; and a correct-password login that begins at that
   instant on the account so locked again is answered AccountLocked. *)
C37_RelockAfterWindow ==
    LoginFound(1)
    => LET before == pre.users[LoginUser(1)]
           after == users[LoginUser(1)]
           correct == verify_password(LoginArg(1).password, before.password_hash)
       IN  /\ (before.status = "active" /\ WindowElapsed(before, pre.now) /\ ~correct)
              => /\ loc[1].result = "InvalidCredentials"
                 /\ after.failed_login_attempts = before.failed_login_attempts + 1
                 /\ after.locked_until = Some(pre.now + lockout_duration)
           /\ (/\ before.failed_login_attempts > max_login_attempts
               /\ before.locked_until = Some(pre.now + lockout_duration)
               /\ correct)
              => /\ loc[1].result = "AccountLocked"
                 /\ loc[1].out = None
                 /\ after = before

(* Witness of C37: after the window of a lock had elapsed, one wrong password
   raised the counter past max_login_attempts and locked the account again,
   and the correct password was refused at the same instant. *)
C37_Witness ==
    /\ LoginFound(1)
    /\ pre.users[LoginUser(1)].status = "active"
    /\ pre.users[LoginUser(1)].failed_login_attempts = max_login_attempts + 1
    /\ pre.users[LoginUser(1)].locked_until = Some(pre.now + lockout_duration)
    /\ pre.hist.lastWrongAt[LoginUser(1)] <= pre.now
    /\ pre.now > 0
    /\ verify_password(LoginArg(1).password, pre.users[LoginUser(1)].password_hash)
    /\ loc[1].result = "AccountLocked"

(***************************************************************************)
(* SpecRefreshBlocked: logins and refreshes of one caller at a time, with  *)
(* the clock, for an account that holds a refresh token from an earlier    *)
(* login and whose status has been set to any value since.                 *)
(***************************************************************************)
InitRefreshBlocked ==
    /\ impl \in Impls
    /\ plugin = AuthPlugin_new
    /\ require_email_verification = FALSE
    /\ now = 0
    /\ \E st \in Statuses :
          users = [u \in Users |-> IF u = "u1" THEN NewUser(u, st, Some(0))
                                               ELSE NewUser(u, "active", Some(0))]
    /\ refresh_tokens = <<NewRefreshRecord(impl, 1, "u1", 0)>>
    /\ password_reset_tokens = <<>>
    /\ email_verification_tokens = <<>>
    /\ pc = [p \in Procs |-> "idle"]
    /\ loc = [p \in Procs |-> NoLocals]
    /\ hist = NoHistory
    /\ pre = Snapshot

SpecRefreshBlocked == InitRefreshBlocked /\ [][NextGuard]_vars

(* C38: refresh_tokens with a token whose record is valid when the call
   begins, for an account that is then not active or locked, answers
   AccountNotActive (UserNotFound if the account has no row), returns no
   tokens and leaves the store as it was: the presented record unrevoked and
   no record added. *)
C38_RefreshOfBlockedAccount ==
    (/\ Done(1, "refresh_tokens")
     /\ RecordValid(impl, RecordOf(pre.refresh_tokens, Presented(1)), pre.now)
     /\ \/ Presented(1).sub \notin DOMAIN pre.users
        \/ pre.users[Presented(1).sub].status # "active"
        \/ LockedAt(pre.users[Presented(1).sub], pre.now))
    => /\ loc[1].result = IF Presented(1).sub \in DOMAIN pre.users
                          THEN "AccountNotActive" ELSE "UserNotFound"
       /\ loc[1].out = None
       /\ users = pre.users
       /\ refresh_tokens = pre.refresh_tokens
       /\ ~Revoked(RecordOf(refresh_tokens, Presented(1)))
       /\ password_reset_tokens = pre.password_reset_tokens
       /\ email_verification_tokens = pre.email_verification_tokens

(* Witness of C38: the refresh of an account locked by failed logins after it
   had logged in was refused, and its record is still valid. *)
C38_Witness ==
    /\ Done(1, "refresh_tokens")
    /\ loc[1].result = "AccountNotActive"
    /\ pre.users[Presented(1).sub].status = "active"
    /\ LockedAt(pre.users[Presented(1).sub], pre.now)
    /\ Presented(1).tid = 2
    /\ RecordValid(impl, RecordOf(refresh_tokens, Presented(1)), now)

(***************************************************************************)
(* Failed resets leave the store alone.                                    *)
(***************************************************************************)
(* The records of a presented reset token that are unused and unexpired at t. *)
LiveResetRecords(tokens, token, t) ==
    {k \in ResetRecords(tokens, token) :
        tokens[k].used_at = None /\ tokens[k].expires_at > t}

(* C39: a reset_password call whose token has no unused, unexpired record
   when the call begins, or whose new password is unacceptable, answers
   InvalidToken or WeakPassword; and a reset_password call that did not
   answer Ok left every account (its digest included), every reset-token
   record (its used state included) and every refresh record as they were. *)
C39_FailedResetChangesNothing ==
    Done(1, "reset_password")
    => /\ (\/ LiveResetRecords(pre.password_reset_tokens, LoginArg(1).token, pre.now) = {}
           \/ ~validate_password(impl, LoginArg(1).password))
          => loc[1].result \in {"InvalidToken", "WeakPassword"}
       /\ loc[1].result # "Ok"
          => /\ loc[1].result \in {"InvalidToken", "WeakPassword"}
             /\ users = pre.users
             /\ password_reset_tokens = pre.password_reset_tokens
             /\ refresh_tokens = pre.refresh_tokens
             /\ email_verification_tokens = pre.email_verification_tokens

(* Witness of C39: an unused token was refused for an unacceptable password
   and is still usable, and the account still has an unrevoked refresh record. *)
C39_Witness ==
    /\ Done(1, "reset_password")
    /\ loc[1].result = "WeakPassword"
    /\ \E k \in LiveResetRecords(password_reset_tokens, LoginArg(1).token, now) :
          /\ password_reset_tokens[k].user_id = "u1"
          /\ \E r \in DOMAIN refresh_tokens :
                refresh_tokens[r].user_id = "u1" /\ ~Revoked(refresh_tokens[r])
    /\ verify_password(PwSecret, users["u1"].password_hash)

=============================================================================
